---------------------------- MODULE Spec2Model ----------------------------
(***************************************************************************)
(* A model of the tree-walking interpreter of c-j-j/rust-interpreter:      *)
(* the environment chain (src/src/environment.rs), the evaluator           *)
(* (src/src/interpreter.rs), the scanner (src/src/scanner.rs), the parser  *)
(* (src/src/parser.rs) and the driver that feeds them (src/src/main.rs).   *)
(*                                                                         *)
(* Rc<RefCell<Environment>> handles are indices into an arena `heap`: two  *)
(* handles are the same Rc exactly when they are the same index, and a     *)
(* mutation through one handle is seen through every other.  Reference     *)
(* counts are not modelled: dropping an Rc has no observable effect.       *)
(* f64 numbers are modelled by integers.                                   *)
(***************************************************************************)
EXTENDS Integers, Sequences, FiniteSets, TLC

VARIABLES
    heap,     \* the arena of environments: heap[h] is the RefCell behind handle h
    env,      \* Interpreter.env: the evaluator's current-scope handle
    out,      \* the lines written to stdout by print statements
    result,   \* what the last Interpreter::evaluate returned
    input,    \* the statement list of the last evaluate (<<>> before the first)
    pre,      \* the interpreter state in which the last evaluate started
    ran,      \* how many inputs the driver has run
    op,       \* the last Environment method called directly (unit level)
    scanner,  \* the Scanner the driver is running (<<>> when there is none)
    parser    \* the Parser the driver is running (<<>> when there is none)

vars == <<heap, env, out, result, input, pre, ran, op, scanner, parser>>

-----------------------------------------------------------------------------
(* Bounds                                                                  *)

\* numbers used as literal payloads are 1..MaxVal
MaxVal == 2
\* the driver runs at most MaxInputs inputs through one interpreter
MaxInputs == 2
\* the unit-level environment specification builds at most MaxScopes scopes
MaxScopes == 2
\* the counter program calls the returned closure 1..MaxCalls times
MaxCalls == 2
\* a return statement is nested in 0..MaxDepth blocks / if statements
MaxDepth == 2
\* the wall clock read by the native function clock is 0..MaxClock
MaxClock == 1

-----------------------------------------------------------------------------
(* Values (interpreter.rs, enum Value) and results                         *)

Number(n) == [tag |-> "Number", n |-> n]
String(s) == [tag |-> "String", s |-> s]
Bool(b) == [tag |-> "Bool", b |-> b]
Nil == [tag |-> "Nil"]
NativeFunction(name) == [tag |-> "NativeFunction", name |-> name]
Function(name, params, body, closure) ==
    [tag |-> "Function", name |-> name, params |-> params, body |-> body,
     closure |-> closure]

\* Option<T>: None is the empty sequence, Some(v) the one-element sequence
None == <<>>
Some(v) == <<v>>

\* RuntimeError (interpreter.rs, enum RuntimeError)
Runtime(message) == [tag |-> "Runtime", message |-> message]
InvalidFunction == [tag |-> "InvalidFunction"]
UndefinedVariable(name) == [tag |-> "UndefinedVariable", name |-> name]
Return(value) == [tag |-> "Return", value |-> value]

\* Result<T, RuntimeError>; Panic is the abort of the process (todo!(), an
\* index out of bounds), which no caller can catch
Unit == [tag |-> "Unit"]
Ok(v) == [kind |-> "Ok", v |-> v]
Err(e) == [kind |-> "Err", v |-> e]
Panic == [kind |-> "Panic", v |-> Unit]

-----------------------------------------------------------------------------
(* Environment (environment.rs)                                            *)

\* HashMap::new()
EmptyBindings == [n \in {} |-> Nil]

\* HashMap::insert
Insert(m, name, value) ==
    [n \in (DOMAIN m) \cup {name} |-> IF n = name THEN value ELSE m[n]]

\* Environment::new: the arena with a fresh root scope; its handle is Len
Environment_new(h) == Append(h, [bindings |-> EmptyBindings, enclosing |-> 0])

\* Environment::new_with_enclosing: the fresh scope's handle is Len of the result
new_with_enclosing(h, enclosing) ==
    Append(h, [bindings |-> EmptyBindings, enclosing |-> enclosing])

define_no_overwrite(h, e, name, value) ==
    IF name \in DOMAIN h[e].bindings
    THEN h
    ELSE [h EXCEPT ![e].bindings = Insert(@, name, value)]

\* Environment::define
define(h, e, name, value) == [h EXCEPT ![e].bindings = Insert(@, name, value)]

RECURSIVE get_outermost(_, _, _)
get_outermost(h, e, name) ==
    LET outer == IF h[e].enclosing # 0
                 THEN get_outermost(h, h[e].enclosing, name)
                 ELSE None
    IN  IF outer # None THEN outer
        ELSE IF name \in DOMAIN h[e].bindings THEN Some(h[e].bindings[name])
        ELSE None

\* Environment::get
RECURSIVE get(_, _, _)
get(h, e, name) ==
    IF name \in DOMAIN h[e].bindings
    THEN Some(h[e].bindings[name])
    ELSE IF h[e].enclosing # 0
         THEN get(h, h[e].enclosing, name)
         ELSE None

RECURSIVE assign_or_create(_, _, _, _)
assign_or_create(h, e, name, value) ==
    IF name \in DOMAIN h[e].bindings \/ h[e].enclosing = 0
    THEN [heap |-> [h EXCEPT ![e].bindings = Insert(@, name, value)],
          r |-> Ok(Unit)]
    ELSE assign_or_create(h, h[e].enclosing, name, value)

assign_local(h, e, name, value) ==
    [heap |-> [h EXCEPT ![e].bindings = Insert(@, name, value)], r |-> Ok(Unit)]

\* Environment::assign: the arena after the call and the Result
RECURSIVE assign(_, _, _, _)
assign(h, e, name, value) ==
    IF name \in DOMAIN h[e].bindings
    THEN [heap |-> [h EXCEPT ![e].bindings = Insert(@, name, value)],
          r |-> Ok(Unit)]
    ELSE IF h[e].enclosing = 0
         THEN [heap |-> h, r |-> Err(UndefinedVariable(name))]
         ELSE assign(h, h[e].enclosing, name, value)

-----------------------------------------------------------------------------
(* The Environment methods called directly, as the unit tests of           *)
(* environment.rs call them: any handle, any name, any value.              *)

EnvNames == {"a", "b"}
EnvVals == {Number(n) : n \in 1..MaxVal}

Handles == 1..Len(heap)

OpRecord(name, e, key, value, ret) ==
    [name |-> name, e |-> e, key |-> key, value |-> value, ret |-> ret]

NoOp == OpRecord("none", 0, "", Nil, Ok(Unit))

\* the interpreter's variables before any input has run
IdleInterpreter ==
    /\ out = <<>>
    /\ result = Ok(Unit)
    /\ input = <<>>
    /\ ran = 0
    /\ scanner = <<>>
    /\ parser = <<>>

InitEnv ==
    /\ heap = Environment_new(<<>>)
    /\ env = 1
    /\ pre = [heap |-> <<>>, env |-> 0, out |-> <<>>]
    /\ op = NoOp
    /\ IdleInterpreter

NewWithEnclosing(e) ==
    /\ Len(heap) < MaxScopes
    /\ heap' = new_with_enclosing(heap, e)
    /\ op' = OpRecord("new_with_enclosing", e, "", Nil, Ok(Len(heap) + 1))
    /\ UNCHANGED <<env, out, result, input, pre, ran, scanner, parser>>

Define(e, name, value) ==
    /\ heap' = define(heap, e, name, value)
    /\ op' = OpRecord("define", e, name, value, Ok(Unit))
    /\ UNCHANGED <<env, out, result, input, pre, ran, scanner, parser>>

Get(e, name) ==
    /\ op' = OpRecord("get", e, name, Nil, get(heap, e, name))
    /\ UNCHANGED <<heap, env, out, result, input, pre, ran, scanner, parser>>

Assign(e, name, value) ==
    /\ heap' = assign(heap, e, name, value).heap
    /\ op' = OpRecord("assign", e, name, value, assign(heap, e, name, value).r)
    /\ UNCHANGED <<env, out, result, input, pre, ran, scanner, parser>>

NextEnv ==
    \/ \E e \in Handles : NewWithEnclosing(e)
    \/ \E e \in Handles, name \in EnvNames, value \in EnvVals : Define(e, name, value)
    \/ \E e \in Handles, name \in EnvNames : Get(e, name)
    \/ \E e \in Handles, name \in EnvNames, value \in EnvVals : Assign(e, name, value)

SpecEnv == InitEnv /\ [][NextEnv]_vars

-----------------------------------------------------------------------------
(* What the claims about the environment chain speak of, stated without    *)
(* the recursion of get and assign.                                        *)

\* the handles from e outward to the root
RECURSIVE Chain(_, _)
Chain(h, e) == IF e = 0 THEN <<>> ELSE <<e>> \o Chain(h, h[e].enclosing)

\* the positions of Chain(h, e) whose scope binds name
Binders(h, e, name) ==
    {i \in 1..Len(Chain(h, e)) : name \in DOMAIN h[Chain(h, e)[i]].bindings}

Min(S) == CHOOSE i \in S : \A j \in S : i <= j

\* the innermost scope of the chain that binds name
Innermost(h, e, name) == Chain(h, e)[Min(Binders(h, e, name))]

\* C7: an assign to a name bound in no scope of the chain fails with
\* UndefinedVariable(name) and changes no environment; the name is still
\* unbound afterwards.
C7_AssignUnboundFails ==
    [][(op'.name = "assign" /\ Binders(heap, op'.e, op'.key) = {})
        => /\ op'.ret = Err(UndefinedVariable(op'.key))
           /\ heap' = heap
           /\ Binders(heap', op'.e, op'.key) = {}
           /\ get(heap', op'.e, op'.key) = None]_vars

C7_Witness ==
    /\ op.name = "assign"
    /\ op.ret = Err(UndefinedVariable(op.key))
    /\ Len(Chain(heap, op.e)) >= 2
    /\ \E other \in EnvNames : Binders(heap, op.e, other) # {}

\* C8: when the name is bound in the chain, get returns the value of the
\* innermost scope that binds it, and assign overwrites that binding only:
\* every other scope and every other binding is as before.
C8_InnermostWins ==
    [][/\ (op'.name = "get" /\ Binders(heap, op'.e, op'.key) # {})
            => op'.ret = Some(heap[Innermost(heap, op'.e, op'.key)].bindings[op'.key])
       /\ (op'.name = "assign" /\ Binders(heap, op'.e, op'.key) # {})
            => /\ op'.ret = Ok(Unit)
               /\ heap' = [heap EXCEPT
                        ![Innermost(heap, op'.e, op'.key)].bindings[op'.key] = op'.value]
      ]_vars

C8_Witness ==
    /\ op.name = "assign"
    /\ op.ret = Ok(Unit)
    /\ Cardinality(Binders(heap, op.e, op.key)) >= 2
    /\ \E i \in Binders(heap, op.e, op.key) :
          heap[Chain(heap, op.e)[i]].bindings[op.key] # op.value

\* C9: define binds the name in the local scope only: get through that scope
\* then returns the new value, every other scope is unchanged, and get through
\* the enclosing scope returns what it returned before.
C9_DefineLocal ==
    [][op'.name = "define"
        => /\ get(heap', op'.e, op'.key) = Some(op'.value)
           /\ DOMAIN heap'[op'.e].bindings = DOMAIN heap[op'.e].bindings \cup {op'.key}
           /\ \A n \in DOMAIN heap[op'.e].bindings :
                 n # op'.key => heap'[op'.e].bindings[n] = heap[op'.e].bindings[n]
           /\ heap'[op'.e].enclosing = heap[op'.e].enclosing
           /\ Len(heap') = Len(heap)
           /\ \A h \in Handles : h # op'.e => heap'[h] = heap[h]
           /\ heap[op'.e].enclosing # 0
                 => get(heap', heap[op'.e].enclosing, op'.key)
                      = get(heap, heap[op'.e].enclosing, op'.key)]_vars

C9_Witness ==
    /\ op.name = "define"
    /\ heap[op.e].enclosing # 0
    /\ get(heap, heap[op.e].enclosing, op.key) # None
    /\ get(heap, heap[op.e].enclosing, op.key) # Some(op.value)
    /\ get(heap, op.e, op.key) = Some(op.value)

-----------------------------------------------------------------------------
(* The syntax tree (parser.rs, enum Expr, enum Statement).  A Token that   *)
(* names a variable, a function or a parameter is modelled by its lexeme.  *)

LitNumber(n) == [tag |-> "Number", n |-> n]
LitString(t) == [tag |-> "String", s |-> t]
LitBoolean(b) == [tag |-> "Boolean", b |-> b]
LitNil == [tag |-> "Nil"]

Binary(left, right, o) == [tag |-> "Binary", left |-> left, right |-> right, op |-> o]
Unary(expr, o) == [tag |-> "Unary", expr |-> expr, op |-> o]
Literal(lit) == [tag |-> "Literal", lit |-> lit]
Variable(name) == [tag |-> "Variable", name |-> name]
Assignment(name, expr) == [tag |-> "Assignment", name |-> name, expr |-> expr]
Call(callee, args) == [tag |-> "Call", callee |-> callee, args |-> args]

ExprStmt(expr) == [tag |-> "Expression", expr |-> expr]
PrintStmt(expr) == [tag |-> "Print", expr |-> expr]
Declaration(name, init) == [tag |-> "Declaration", name |-> name, init |-> init]
Block(statements) == [tag |-> "Block", statements |-> statements]
IfStmt(condition, then_branch, else_branch) ==
    [tag |-> "If", condition |-> condition, then_branch |-> then_branch,
     else_branch |-> else_branch]
FunctionStmt(name, params, block) ==
    [tag |-> "Function", name |-> name, params |-> params, block |-> block]
ReturnStmt(value) == [tag |-> "Return", value |-> value]

-----------------------------------------------------------------------------
(* The evaluator (interpreter.rs).  An evaluation threads the state        *)
(* s = [heap, env, out, now]: the arena, the current-scope handle of the   *)
(* Interpreter doing the evaluation, stdout, and the wall clock.  Every    *)
(* operator returns the state after it and the Result.                     *)

Outcome(s, r) == [s |-> s, r |-> r]

\* a line of stdout and who wrote it; text is the sequence of its pieces
Line(src, text) == [src |-> src, text |-> text]

\* impl Display for Value
Display(v) ==
    CASE v.tag = "Number" -> <<ToString(v.n)>>
      [] v.tag = "String" -> <<v.s>>
      [] v.tag = "Bool" -> <<IF v.b THEN "true" ELSE "false">>
      [] v.tag = "Nil" -> <<"nil">>
      [] v.tag = "NativeFunction" -> <<v.name>>
      [] v.tag = "Function" -> <<"function ", v.name, "()">>

\* impl Display for BinaryOperator; operators are modelled by their symbol
OpDisplay(o) == o

BinaryOperators == {"-", "+", "/", "*", "!=", "==", ">", ">=", "<", "<=", "and", "or"}

\* f64 division on the modelled integers: the quotient when it is an integer;
\* otherwise (a fraction, an infinity, NaN) the pair <<a, b>> stands for the
\* f64 a / b, which the integers do not hold
Quotient(a, b) == IF b # 0 /\ (a \div b) * b = a THEN a \div b ELSE <<a, b>>

\* a match in which == and != compare any two values
binary_result_any_equality(l, o, r) ==
    IF o \in {"==", "!="}
    THEN Ok(Bool((l = r) <=> (o = "==")))
    ELSE IF l.tag = "Number" /\ r.tag = "Number" /\ o \in {"+", "-", "*", "/", ">", ">=", "<", "<="}
    THEN CASE o = "+" -> Ok(Number(l.n + r.n))
           [] o = "-" -> Ok(Number(l.n - r.n))
           [] o = "*" -> Ok(Number(l.n * r.n))
           [] o = "/" -> Ok(Number(Quotient(l.n, r.n)))
           [] o = ">" -> Ok(Bool(l.n > r.n))
           [] o = ">=" -> Ok(Bool(l.n >= r.n))
           [] o = "<" -> Ok(Bool(l.n < r.n))
           [] o = "<=" -> Ok(Bool(l.n <= r.n))
    ELSE IF l.tag = "Bool" /\ r.tag = "Bool" /\ o \in {"and", "or"}
    THEN IF o = "and" THEN Ok(Bool(l.b /\ r.b)) ELSE Ok(Bool(l.b \/ r.b))
    ELSE Err(Runtime(<<"Invalid operation: ">> \o Display(l) \o <<" ", OpDisplay(o), " ">>
                        \o Display(r)))

\* the match of evaluate_binary_op on (l, op, r)
binary_result(l, o, r) ==
    IF l.tag = "Number" /\ r.tag = "Number" /\ o \in {"+", "-", "*", "/", ">", ">=", "<", "<=", "=="}
    THEN CASE o = "+" -> Ok(Number(l.n + r.n))
           [] o = "-" -> Ok(Number(l.n - r.n))
           [] o = "*" -> Ok(Number(l.n * r.n))
           [] o = "/" -> Ok(Number(Quotient(l.n, r.n)))
           [] o = ">" -> Ok(Bool(l.n > r.n))
           [] o = ">=" -> Ok(Bool(l.n >= r.n))
           [] o = "<" -> Ok(Bool(l.n < r.n))
           [] o = "<=" -> Ok(Bool(l.n <= r.n))
           [] o = "==" -> Ok(Bool(l.n = r.n))
    ELSE IF l.tag = "Bool" /\ r.tag = "Bool" /\ o \in {"and", "or"}
    THEN IF o = "and" THEN Ok(Bool(l.b /\ r.b)) ELSE Ok(Bool(l.b \/ r.b))
    ELSE Err(Runtime(<<"Invalid operation: ">> \o Display(l) \o <<" ", OpDisplay(o), " ">>
                        \o Display(r)))

\* Expr::Literal
literal_value(lit) ==
    CASE lit.tag = "Number" -> Number(lit.n)
      [] lit.tag = "String" -> String(lit.s)
      [] lit.tag = "Boolean" -> Bool(lit.b)
      [] lit.tag = "Nil" -> Nil

\* the native function clock: milliseconds since the epoch
clock(now) == Ok(Number(now))

call_enclosing_caller(closure, current) == current

\* Expr::Call: the scope that encloses the scope of a call
call_enclosing(closure, current) == closure

\* Expr::Call: the parameters defined in the call's scope e, in order; the
\* index into the evaluated arguments is out of bounds when they run out
RECURSIVE define_params(_, _, _, _, _)
define_params(h, e, params, args, i) ==
    IF i > Len(params) THEN Outcome(h, Ok(Unit))
    ELSE IF i > Len(args) THEN Outcome(h, Panic)
    ELSE define_params(define(h, e, params[i], args[i]), e, params, args, i + 1)

call_result_nil(r) ==
    CASE r.kind = "Ok" -> Ok(Nil)
      [] r.kind = "Err" -> IF r.v.tag = "Return" THEN Ok(Nil) ELSE r
      [] r.kind = "Panic" -> r

\* a call that turns every error of its body into its value
call_result_catch_all(r) ==
    CASE r.kind = "Ok" -> Ok(Nil)
      [] r.kind = "Err" -> IF r.v.tag = "Return" THEN Ok(r.v.value) ELSE Ok(Nil)
      [] r.kind = "Panic" -> r

\* Expr::Call: what the call yields from what the body loop ended with
call_result(r) ==
    CASE r.kind = "Ok" -> Ok(Nil)
      [] r.kind = "Err" -> IF r.v.tag = "Return" THEN Ok(r.v.value) ELSE r
      [] r.kind = "Panic" -> r

declare_function_snapshot(s, name, params, block) ==
    LET copied == Append(s.heap, s.heap[s.env])
    IN  [s EXCEPT !.heap = define(copied, s.env, name,
                                  Function(name, params, block, Len(copied)))]

\* Statement::Function: the function value captures the current-scope handle
declare_function(s, name, params, block) ==
    [s EXCEPT !.heap = define(s.heap, s.env, name, Function(name, params, block, s.env))]

\* Statement::Print: the line println! writes for a value
print_line(v) ==
    CASE v.tag = "Number" -> <<ToString(v.n)>>
      [] v.tag = "String" -> <<v.s>>
      [] v.tag = "Bool" -> <<IF v.b THEN "true" ELSE "false">>
      [] v.tag = "Nil" -> <<"nil">>
      [] v.tag = "NativeFunction" -> <<"Function: ", v.name>>
      [] v.tag = "Function" -> <<"Function: ", v.name>>

\* a condition that holds unless it is nil or false
if_condition_truthy(v) == ~(v.tag = "Nil" \/ (v.tag = "Bool" /\ ~v.b))

\* Statement::If: if let Value::Bool(true) = condition
if_condition(v) == v.tag = "Bool" /\ v.b

RECURSIVE evaluate_expression(_, _)
RECURSIVE evaluate_statement(_, _)
RECURSIVE evaluate_from(_, _, _)
RECURSIVE evaluate_args(_, _, _, _)

\* a binary operation that evaluates its right operand first
evaluate_binary_op_right_first(left, right, o, s) ==
    LET r == evaluate_expression(right, s)
    IN  IF r.r.kind # "Ok" THEN r
        ELSE LET l == evaluate_expression(left, r.s)
             IN  IF l.r.kind # "Ok" THEN l
                 ELSE Outcome(l.s, binary_result(l.r.v, o, r.r.v))

\* Interpreter::evaluate_binary_op
evaluate_binary_op(left, right, o, s) ==
    LET l == evaluate_expression(left, s)
    IN  IF l.r.kind # "Ok" THEN l
        ELSE LET r == evaluate_expression(right, l.s)
             IN  IF r.r.kind # "Ok" THEN r
                 ELSE Outcome(r.s, binary_result(l.r.v, o, r.r.v))

\* Expr::Call: the arguments from index i on, evaluated in order into acc
evaluate_args(args, i, s, acc) ==
    IF i > Len(args) THEN Outcome(s, Ok(acc))
    ELSE LET a == evaluate_expression(args[i], s)
         IN  IF a.r.kind # "Ok" THEN a
             ELSE evaluate_args(args, i + 1, a.s, Append(acc, a.r.v))

\* Expr::Call with a Value::Function callee: the body runs in a new
\* Interpreter whose env is the call's scope; the caller keeps its own env
call_function(callee, args, s) ==
    LET h1 == new_with_enclosing(s.heap, call_enclosing(callee.closure, s.env))
        e1 == Len(h1)
        p == define_params(h1, e1, callee.params, args, 1)
    IN  IF p.r.kind # "Ok" THEN Outcome([s EXCEPT !.heap = p.s], p.r)
        ELSE LET b == evaluate_from(callee.body, 1, [s EXCEPT !.heap = p.s, !.env = e1])
             IN  Outcome([b.s EXCEPT !.env = s.env], call_result(b.r))

\* Interpreter::evaluate_expression
evaluate_expression(expr, s) ==
    CASE expr.tag = "Binary" -> evaluate_binary_op(expr.left, expr.right, expr.op, s)
      [] expr.tag = "Unary" -> Outcome(s, Panic)
      [] expr.tag = "Literal" -> Outcome(s, Ok(literal_value(expr.lit)))
      [] expr.tag = "Variable" ->
            LET found == get(s.heap, s.env, expr.name)
            IN  Outcome(s, IF found = None THEN Ok(Nil) ELSE Ok(found[1]))
      [] expr.tag = "Assignment" ->
            LET v == evaluate_expression(expr.expr, s)
            IN  IF v.r.kind # "Ok" THEN v
                ELSE LET a == assign(v.s.heap, v.s.env, expr.name, v.r.v)
                     IN  Outcome([v.s EXCEPT !.heap = a.heap],
                                 IF a.r.kind = "Ok" THEN Ok(Nil) ELSE a.r)
      [] expr.tag = "Call" ->
            LET c == evaluate_expression(expr.callee, s)
            IN  IF c.r.kind # "Ok" THEN c
                ELSE LET a == evaluate_args(expr.args, 1, c.s, <<>>)
                     IN  IF a.r.kind # "Ok" THEN a
                         ELSE CASE c.r.v.tag = "NativeFunction" -> Outcome(a.s, clock(a.s.now))
                                [] c.r.v.tag = "Function" -> call_function(c.r.v, a.r.v, a.s)
                                [] OTHER -> Outcome(a.s, Err(InvalidFunction))

\* Interpreter::evaluate_statement
evaluate_statement(statement, s) ==
    CASE statement.tag = "Expression" ->
            LET v == evaluate_expression(statement.expr, s)
            IN  IF v.r.kind # "Ok" THEN v ELSE Outcome(v.s, Ok(Unit))
      [] statement.tag = "Print" ->
            LET v == evaluate_expression(statement.expr, s)
            IN  IF v.r.kind # "Ok" THEN v
                ELSE Outcome([v.s EXCEPT !.out = Append(@, Line("print", print_line(v.r.v)))],
                             Ok(Unit))
      [] statement.tag = "Declaration" ->
            IF statement.init = None
            THEN Outcome([s EXCEPT !.heap = define(s.heap, s.env, statement.name, Nil)],
                         Ok(Unit))
            ELSE LET v == evaluate_expression(statement.init[1], s)
                 IN  IF v.r.kind # "Ok" THEN v
                     ELSE Outcome([v.s EXCEPT
                                      !.heap = define(v.s.heap, v.s.env, statement.name, v.r.v)],
                                  Ok(Unit))
      [] statement.tag = "Block" ->
            LET h1 == new_with_enclosing(s.heap, s.env)
            IN  evaluate_from(statement.statements, 1, [s EXCEPT !.heap = h1, !.env = Len(h1)])
      [] statement.tag = "If" ->
            LET c == evaluate_expression(statement.condition, s)
            IN  IF c.r.kind # "Ok" THEN c
                ELSE IF if_condition(c.r.v)
                THEN evaluate_statement(statement.then_branch, c.s)
                ELSE IF statement.else_branch # None
                THEN evaluate_statement(statement.else_branch[1], c.s)
                ELSE Outcome(c.s, Ok(Unit))
      [] statement.tag = "Function" ->
            Outcome(declare_function(s, statement.name, statement.params, statement.block),
                    Ok(Unit))
      [] statement.tag = "Return" ->
            IF statement.value = None
            THEN Outcome(s, Err(Return(Nil)))
            ELSE LET v == evaluate_expression(statement.value[1], s)
                 IN  IF v.r.kind # "Ok" THEN v ELSE Outcome(v.s, Err(Return(v.r.v)))

\* Interpreter::evaluate: the loop over the statements from index i on
evaluate_from(statements, i, s) ==
    IF i > Len(statements) THEN Outcome(s, Ok(Unit))
    ELSE LET x == evaluate_statement(statements[i], s)
         IN  IF x.r.kind # "Ok" THEN x ELSE evaluate_from(statements, i + 1, x.s)

\* Interpreter::evaluate
evaluate(statements, s) == evaluate_from(statements, 1, s)

-----------------------------------------------------------------------------
(* The driver (main.rs): one Interpreter, fed one parsed input after the   *)
(* other as the REPL does.  The inputs are statement lists as the parser   *)
(* returns them.                                                           *)

\* Interpreter::new: the global scope with the native function clock
Init ==
    /\ heap = define(Environment_new(<<>>), 1, "clock", NativeFunction("clock"))
    /\ env = 1
    /\ pre = [heap |-> <<>>, env |-> 0, out |-> <<>>]
    /\ op = NoOp
    /\ IdleInterpreter

\* run: the line the driver itself prints after the evaluation
run_line(r) ==
    IF r.kind = "Ok"
    THEN [src |-> "run", text |-> <<>>]
    ELSE [src |-> "run", text |-> <<"runtime error ">>, debug |-> r.v]

\* run(buffer, interpreter) on an input that parsed to statements, while the
\* wall clock reads now; a panic ends the process
Run(statements, now) ==
    /\ ran < MaxInputs
    /\ result.kind # "Panic"
    /\ LET x == evaluate(statements, [heap |-> heap, env |-> env, out |-> out, now |-> now])
       IN  /\ heap' = x.s.heap
           /\ env' = x.s.env
           /\ out' = IF x.r.kind = "Panic" THEN x.s.out ELSE Append(x.s.out, run_line(x.r))
           /\ result' = x.r
    /\ input' = statements
    /\ pre' = [heap |-> heap, env |-> env, out |-> out]
    /\ ran' = ran + 1
    /\ UNCHANGED <<op, scanner, parser>>

-----------------------------------------------------------------------------
(* Inputs                                                                  *)

Vals == 1..MaxVal
Num(n) == Literal(LitNumber(n))
True == Literal(LitBoolean(TRUE))

\* var a = X; { var a = Y; print a; } print a;
LexicalScopeProgram(X, Y) ==
    << Declaration("a", Some(Num(X))),
       Block(<< Declaration("a", Some(Num(Y))), PrintStmt(Variable("a")) >>),
       PrintStmt(Variable("a")) >>

\* var a = X; { a = Y; } print a;
AssignOuterProgram(X, Y) ==
    << Declaration("a", Some(Num(X))),
       Block(<< ExprStmt(Assignment("a", Num(Y))) >>),
       PrintStmt(Variable("a")) >>

\* { var b = X; }
BlockProgram(X) == << Block(<< Declaration("b", Some(Num(X))) >>) >>

\* { var b = X; u = X; }   (u is declared by no input)
BlockErrorProgram(X) ==
    << Block(<< Declaration("b", Some(Num(X))), ExprStmt(Assignment("u", Num(X))) >>) >>

\* { return X; }
BlockReturnProgram(X) == << Block(<< ReturnStmt(Some(Num(X))) >>) >>

\* var a = X;
DeclareProgram(X) == << Declaration("a", Some(Num(X))) >>

\* a = X;
AssignProgram(X) == << ExprStmt(Assignment("a", Num(X))) >>

\* print a;
PrintProgram == << PrintStmt(Variable("a")) >>

\* the pairs of distinct values
Distinct == {p \in Vals \X Vals : p[1] # p[2]}

ScopeInputs ==
    {LexicalScopeProgram(p[1], p[2]) : p \in Distinct}
    \cup {AssignOuterProgram(p[1], p[2]) : p \in Distinct}
    \cup {BlockProgram(X) : X \in Vals}
    \cup {BlockErrorProgram(X) : X \in Vals}
    \cup {BlockReturnProgram(X) : X \in Vals}
    \cup {DeclareProgram(X) : X \in Vals}
    \cup {AssignProgram(X) : X \in Vals}
    \cup {PrintProgram}

Next == \E statements \in ScopeInputs, now \in 0..MaxClock : Run(statements, now)

Spec == Init /\ [][Next]_vars

\* the text of the lines that print statements wrote during the last input
IsPrintLine(l) == l.src = "print"
Printed ==
    LET new == SelectSeq(SubSeq(out, Len(pre.out) + 1, Len(out)), IsPrintLine)
    IN  [i \in 1..Len(new) |-> new[i].text]

HasBlock(statements) == \E i \in 1..Len(statements) : statements[i].tag = "Block"

\* the scope that the first Block statement of the last input created
BlockScope == Len(pre.heap) + 1

\* C1: run in a fresh interpreter, var a = X; { var a = Y; print a; } print a;
\* with X # Y prints exactly two lines, Y and then X.
C1_LexicalScope ==
    \A p \in Distinct :
        (ran = 1 /\ input = LexicalScopeProgram(p[1], p[2]))
            => /\ result = Ok(Unit)
               /\ Printed = << <<ToString(p[2])>>, <<ToString(p[1])>> >>

\* C2: after an input with a Block statement completed without error, the
\* evaluator's current environment is the one that was current before it.
C2_BlockRestoresEnv ==
    (ran >= 1 /\ HasBlock(input) /\ result.kind = "Ok") => env = pre.env

\* C3: after an input whose Block statement ended in a runtime error or a
\* Return signal, the evaluator's current environment is the one that was
\* current before the block was entered.
C3_BlockRestoresEnvOnError ==
    (ran >= 1 /\ HasBlock(input) /\ result.kind = "Err") => env = pre.env

\* C4: var a = X; { a = Y; } print a; prints Y: the assignment in the block
\* overwrites the binding of the enclosing scope and creates none in the
\* block's scope.
C4_AssignReachesOuter ==
    \A p \in Distinct :
        (ran >= 1 /\ input = AssignOuterProgram(p[1], p[2]))
            => /\ result = Ok(Unit)
               /\ Printed = << <<ToString(p[2])>> >>
               /\ heap[pre.env].bindings["a"] = Number(p[2])
               /\ heap[BlockScope].enclosing = pre.env
               /\ DOMAIN heap[BlockScope].bindings = {}
               /\ Len(heap) = BlockScope

C4_Witness ==
    /\ ran = 2
    /\ input = AssignOuterProgram(1, 2)
    /\ Printed = << <<"2">> >>
    /\ "a" \in DOMAIN pre.heap[pre.env].bindings
    /\ pre.heap[pre.env].bindings["a"] = Number(1)

-----------------------------------------------------------------------------
(* Inputs that declare and call functions                                  *)

CallStmt(name) == ExprStmt(Call(Variable(name), <<>>))

\* fun makeCounter() { var i = 0; fun count() { i = i + 1; print i; } return count; }
\* var c = makeCounter(); c(); ... c();     (k calls)
CounterProgram(k) ==
    << FunctionStmt("makeCounter", <<>>,
          << Declaration("i", Some(Num(0))),
             FunctionStmt("count", <<>>,
                << ExprStmt(Assignment("i", Binary(Variable("i"), Num(1), "+"))),
                   PrintStmt(Variable("i")) >>),
             ReturnStmt(Some(Variable("count"))) >>),
       Declaration("c", Some(Call(Variable("makeCounter"), <<>>))) >>
    \o [j \in 1..k |-> CallStmt("c")]

\* c();
CallCounterProgram == << CallStmt("c") >>

\* a statement nested in d blocks and if statements, alternating
RECURSIVE Nest(_, _)
Nest(d, statement) ==
    IF d = 0 THEN statement
    ELSE IF d % 2 = 1 THEN Block(<< Nest(d - 1, statement) >>)
    ELSE IfStmt(True, Nest(d - 1, statement), None)

\* var t = 0; fun f() { <return X; at depth d> t = 1; print t; } var r = f(); print r; print t;
ReturnProgram(d, X) ==
    << Declaration("t", Some(Num(0))),
       FunctionStmt("f", <<>>,
          << Nest(d, ReturnStmt(Some(Num(X)))),
             ExprStmt(Assignment("t", Num(1))),
             PrintStmt(Variable("t")) >>),
       Declaration("r", Some(Call(Variable("f"), <<>>))),
       PrintStmt(Variable("r")),
       PrintStmt(Variable("t")) >>

\* var t = 0; fun f() { t = X; } var r = f(); print r; print t;
NoReturnProgram(X) ==
    << Declaration("t", Some(Num(0))),
       FunctionStmt("f", <<>>, << ExprStmt(Assignment("t", Num(X))) >>),
       Declaration("r", Some(Call(Variable("f"), <<>>))),
       PrintStmt(Variable("r")),
       PrintStmt(Variable("t")) >>

\* the ways an environment is changed after a function captured it
Ways == {"assign", "define", "closure", "child"}

\* var x = X; fun f() { print x; } <change x to Y>; f();
\* where the change is   x = Y;   or   var x = Y;   or   fun g() { x = Y; } g();
\* or   { x = Y; }
SharedProgram(way, X, Y) ==
    << Declaration("x", Some(Num(X))),
       FunctionStmt("f", <<>>, << PrintStmt(Variable("x")) >>) >>
    \o (CASE way = "assign" -> << ExprStmt(Assignment("x", Num(Y))) >>
          [] way = "define" -> << Declaration("x", Some(Num(Y))) >>
          [] way = "closure" ->
                << FunctionStmt("g", <<>>, << ExprStmt(Assignment("x", Num(Y))) >>),
                   CallStmt("g") >>
          [] way = "child" -> << Block(<< ExprStmt(Assignment("x", Num(Y))) >>) >>)
    \o << CallStmt("f") >>

\* print clock();
ClockProgram == << PrintStmt(Call(Variable("clock"), <<>>)) >>

FunInputs ==
    {CounterProgram(k) : k \in 1..MaxCalls}
    \cup {CallCounterProgram}
    \cup {ReturnProgram(d, X) : d \in 0..MaxDepth, X \in Vals}
    \cup {NoReturnProgram(X) : X \in Vals}
    \cup {SharedProgram(way, p[1], p[2]) : way \in Ways, p \in Distinct}
    \cup {ClockProgram}

NextFun == \E statements \in FunInputs, now \in 0..MaxClock : Run(statements, now)

SpecFun == Init /\ [][NextFun]_vars

\* the value bound to name in the scope chain the last input started in
Before(name) == get(pre.heap, pre.env, name)

\* the counter closure and the value of its captured i before the last input
IsCounter(c) == c # None /\ c[1].tag = "Function" /\ c[1].name = "count"
CapturedBefore == pre.heap[Before("c")[1].closure].bindings["i"]

\* C5: the counter returned by makeCounter reads and mutates the i of that
\* makeCounter call, and the mutation persists between calls: the n-th call
\* prints n, within one input and across inputs.
C5_ClosureCounter ==
    /\ \A k \in 1..MaxCalls :
          (ran >= 1 /\ input = CounterProgram(k))
              => /\ result = Ok(Unit)
                 /\ Printed = [j \in 1..k |-> <<ToString(j)>>]
    /\ (ran >= 1 /\ input = CallCounterProgram /\ IsCounter(Before("c")))
          => /\ result = Ok(Unit)
             /\ Printed = << <<ToString(CapturedBefore.n + 1)>> >>
             /\ heap[Before("c")[1].closure].bindings["i"] = Number(CapturedBefore.n + 1)

C5_Witness ==
    /\ ran = 2
    /\ input = CallCounterProgram
    /\ pre.out # <<>>
    /\ Printed = << <<"3">> >>

\* C6: a call whose body executes return X, at any nesting depth of blocks and
\* if statements, yields X and runs nothing of the body after the return (no
\* line printed, no binding changed); a body that ends without return makes
\* the call yield Nil.
C6_ReturnPayload ==
    /\ \A d \in 0..MaxDepth, X \in Vals :
          (ran >= 1 /\ input = ReturnProgram(d, X))
              => /\ result = Ok(Unit)
                 /\ Printed = << <<ToString(X)>>, <<"0">> >>
                 /\ get(heap, pre.env, "r") = Some(Number(X))
                 /\ get(heap, pre.env, "t") = Some(Number(0))
    /\ \A X \in Vals :
          (ran >= 1 /\ input = NoReturnProgram(X))
              => /\ result = Ok(Unit)
                 /\ Printed = << <<"nil">>, <<ToString(X)>> >>
                 /\ get(heap, pre.env, "r") = Some(Nil)

C6_Witness ==
    /\ ran >= 1
    /\ input = ReturnProgram(2, 1)
    /\ Printed = << <<"1">>, <<"0">> >>
    /\ get(heap, pre.env, "r") = Some(Number(1))

\* C10: a function shares the environment current at its declaration: a
\* binding of it changed after the declaration, by an assignment or a
\* declaration in that scope, by another closure or from a child scope, is
\* what the body reads at the next call.
C10_ClosureShared ==
    \A way \in Ways, p \in Distinct :
        (ran >= 1 /\ input = SharedProgram(way, p[1], p[2]))
            => /\ result = Ok(Unit)
               /\ Printed = << <<ToString(p[2])>> >>

C10_Witness ==
    /\ ran >= 1
    /\ input = SharedProgram("closure", 1, 2)
    /\ Printed = << <<"2">> >>
    /\ get(heap, pre.env, "f")[1].closure = pre.env

-----------------------------------------------------------------------------
(* The scanner (src/src/scanner.rs)                                        *)
(*                                                                         *)
(* A source is the sequence of its bytes, each a one-character string; the *)
(* text of a lexeme or of a string literal is such a sequence too.         *)
(* Scanner.current and Scanner.start are byte offsets counted from 0, so   *)
(* the byte under the cursor is source[current + 1].  The two loops of the *)
(* scanner that wait for a byte of the source (the comment skip of         *)
(* scan_next and the loop of add_string_literal) are taken one iteration   *)
(* at a time: Scanner.mode says which loop the scanner is in.              *)

\* how many bytes past the end of the source a waiting loop is followed
MaxOverrun == 2

\* the longest source of ScanSources
MaxSrcLen == 3

\* what peek returns at and after the end of the source: the char '\0'
NUL == "NUL"

Digits == {"0", "1", "2", "3", "4", "5", "6", "7", "8", "9"}

Letters ==
    {"a", "b", "c", "d", "e", "f", "g", "h", "i", "j", "k", "l", "m",
     "n", "o", "p", "q", "r", "s", "t", "u", "v", "w", "x", "y", "z",
     "A", "B", "C", "D", "E", "F", "G", "H", "I", "J", "K", "L", "M",
     "N", "O", "P", "Q", "R", "S", "T", "U", "V", "W", "X", "Y", "Z"}

\* char::is_digit(10)
is_digit(c) == c \in Digits

\* char::is_alphanumeric, on the ASCII bytes
is_alphanumeric(c) == c \in Letters \cup Digits

\* the keyword table built by Scanner::new
keywords ==
    (<<"a", "n", "d">> :> "And") @@
    (<<"c", "l", "a", "s", "s">> :> "Class") @@
    (<<"e", "l", "s", "e">> :> "Else") @@
    (<<"f", "a", "l", "s", "e">> :> "False") @@
    (<<"f", "o", "r">> :> "For") @@
    (<<"f", "u", "n">> :> "Fun") @@
    (<<"i", "f">> :> "If") @@
    (<<"n", "i", "l">> :> "Nil") @@
    (<<"o", "r">> :> "Or") @@
    (<<"p", "r", "i", "n", "t">> :> "Print") @@
    (<<"r", "e", "t", "u", "r", "n">> :> "Return") @@
    (<<"s", "u", "p", "e", "r">> :> "Super") @@
    (<<"t", "h", "i", "s">> :> "This") @@
    (<<"t", "r", "u", "e">> :> "True") @@
    (<<"v", "a", "r">> :> "Var") @@
    (<<"w", "h", "i", "l", "e">> :> "While")

\* enum Literal of the scanner
Literal_String(text) == [tag |-> "String", s |-> text]
Literal_Number(n) == [tag |-> "Number", n |-> n]

\* struct Token
Token(token_type, lexeme, line, literal, column) ==
    [token_type |-> token_type, lexeme |-> lexeme, line |-> line,
     literal |-> literal, column |-> column]

\* Scanner::new; mode is "scan" in the loop of scan, "string" in the loop of
\* add_string_literal, "comment" in the comment loop, "done" once scan returned;
\* printed holds the lines the scanner wrote to stdout
Scanner_new(source) ==
    [source |-> source, current |-> 0, start |-> 0, tokens |-> <<>>,
     line |-> 0, mode |-> "scan", printed |-> <<>>]

\* source[a..b]
Slice(source, a, b) == SubSeq(source, a + 1, b)

Scanner_peek(sc) ==
    IF sc.current < Len(sc.source) THEN sc.source[sc.current + 1] ELSE NUL

peek_next(sc) ==
    IF sc.current + 1 < Len(sc.source) THEN sc.source[sc.current + 2] ELSE NUL

Scanner_advance(sc) == [sc EXCEPT !.current = @ + 1]

get_current_string(sc) == Slice(sc.source, sc.start, sc.current)

add_token_with_literal(sc, token, literal) ==
    [sc EXCEPT !.tokens =
        Append(@, Token(token, Slice(sc.source, sc.start, sc.current),
                        sc.line, literal, sc.start))]

add_token(sc, token) == add_token_with_literal(sc, token, None)

add_double_token(sc, next_char, lhs, rhs) ==
    IF Scanner_peek(sc) = next_char
    THEN add_token(Scanner_advance(sc), lhs)
    ELSE add_token(sc, rhs)

DigitValue ==
    ("0" :> 0) @@ ("1" :> 1) @@ ("2" :> 2) @@ ("3" :> 3) @@ ("4" :> 4) @@
    ("5" :> 5) @@ ("6" :> 6) @@ ("7" :> 7) @@ ("8" :> 8) @@ ("9" :> 9)

RECURSIVE digits_value(_)
digits_value(text) ==
    IF text = <<>> THEN 0
    ELSE digits_value(SubSeq(text, 1, Len(text) - 1)) * 10 + DigitValue[text[Len(text)]]

\* str::parse::<f64> on digits with an optional fraction: the integer it
\* denotes, or the pair <<whole, fraction digits>> when it is not an integer
parse_f64(text) ==
    LET dots == {i \in 1..Len(text) : text[i] = "."}
    IN  IF dots = {} THEN digits_value(text)
        ELSE LET d == CHOOSE i \in dots : TRUE
                 whole == SubSeq(text, 1, d - 1)
                 frac == SubSeq(text, d + 1, Len(text))
             IN  IF \A i \in 1..Len(frac) : frac[i] = "0"
                 THEN digits_value(whole)
                 ELSE <<digits_value(whole), frac>>

\* while self.peek().is_digit(10) { self.advance(); }
RECURSIVE while_digit(_)
while_digit(sc) ==
    IF is_digit(Scanner_peek(sc)) THEN while_digit(Scanner_advance(sc)) ELSE sc

add_number_literal(sc) ==
    LET whole == while_digit(sc)
        all == IF Scanner_peek(whole) = "." /\ is_digit(peek_next(whole))
               THEN while_digit(Scanner_advance(whole))
               ELSE whole
    IN  add_token_with_literal(all, "Number",
            Some(Literal_Number(parse_f64(get_current_string(all)))))

\* while self.peek().is_alphanumeric() { self.advance(); }
RECURSIVE while_alphanumeric(_)
while_alphanumeric(sc) ==
    IF is_alphanumeric(Scanner_peek(sc))
    THEN while_alphanumeric(Scanner_advance(sc))
    ELSE sc

add_identifier(sc) ==
    LET all == while_alphanumeric(sc)
        str == get_current_string(all)
    IN  IF str \in DOMAIN keywords
        THEN add_token(all, keywords[str])
        ELSE add_token(all, "Identifier")

SingleTokens ==
    (";" :> "Semicolon") @@ ("{" :> "LeftBrace") @@ ("}" :> "RightBrace") @@
    ("(" :> "LeftParen") @@ (")" :> "RightParen") @@ ("," :> "Comma") @@
    ("." :> "Dot") @@ ("-" :> "Minus") @@ ("+" :> "Plus") @@ ("*" :> "Star")

\* scan_next up to where it returns or enters one of the two waiting loops
scan_next(sc) ==
    LET c == sc.source[sc.current + 1]
        s1 == Scanner_advance([sc EXCEPT !.start = sc.current])
    IN  CASE c \in DOMAIN SingleTokens -> add_token(s1, SingleTokens[c])
          [] c = "=" -> add_double_token(s1, "=", "EqualEqual", "Equal")
          [] c = "!" -> add_double_token(s1, "=", "BangEqual", "Bang")
          [] c = ">" -> add_double_token(s1, "=", "GreaterEqual", "Greater")
          [] c = "<" -> add_double_token(s1, "=", "LessEqual", "Less")
          [] c = "\"" -> [s1 EXCEPT !.mode = "string"]
          [] c = "/" -> IF Scanner_peek(s1) # "/"
                        THEN add_token(s1, "Slash")
                        ELSE [s1 EXCEPT !.mode = "comment"]
          [] c = "\n" -> [s1 EXCEPT !.line = @ + 1]
          [] c \in {" ", "\t", "\r"} -> s1
          [] OTHER -> IF is_digit(c) THEN add_number_literal(s1)
                      ELSE IF is_alphanumeric(c) THEN add_identifier(s1)
                      ELSE [s1 EXCEPT !.printed =
                                Append(@, <<"Unrecognised character ", c>>)]

\* one test of the loop condition of the comment skip in scan_next
comment_step(sc) ==
    IF Scanner_peek(sc) # "\n"
    THEN Scanner_advance(sc)
    ELSE [sc EXCEPT !.mode = "scan"]

\* one test of the loop condition of add_string_literal, and what follows the
\* loop when it ends
add_string_literal(sc) ==
    IF Scanner_peek(sc) # "\""
    THEN Scanner_advance(
             IF Scanner_peek(sc) = "\n" THEN [sc EXCEPT !.line = @ + 1] ELSE sc)
    ELSE LET closed == Scanner_advance(sc)
             string == Literal_String(
                 Slice(closed.source, closed.start + 1, closed.current - 1))
         IN  [add_token_with_literal(closed, "String", Some(string))
                 EXCEPT !.mode = "scan"]

\* a scan that returns its tokens without the sentinel
scan_finish_no_eof(sc) == [sc EXCEPT !.mode = "done"]

\* what scan does once its loop has ended
scan_finish(sc) == [add_token(sc, "EOF") EXCEPT !.mode = "done"]

\* one step of Scanner::scan
scan_step(sc) ==
    CASE sc.mode = "string" -> add_string_literal(sc)
      [] sc.mode = "comment" -> comment_step(sc)
      [] sc.mode = "scan" -> IF sc.current < Len(sc.source)
                             THEN scan_next(sc)
                             ELSE scan_finish(sc)
      [] OTHER -> sc

\* scan(input) where it returns: the token vector
RECURSIVE scan_from(_)
scan_from(sc) == IF sc.mode = "done" THEN sc.tokens ELSE scan_from(scan_step(sc))

scan(source) == scan_from(Scanner_new(source))

-----------------------------------------------------------------------------
(* The scanner on its own: every source of at most MaxSrcLen bytes over    *)
(* ScanAlphabet is scanned from a fresh Scanner.                           *)

ScanAlphabet == {";", "\"", "/", "\n", " ", "a", "1", "=", ".", "@"}

ScanSources == UNION {[1..k -> ScanAlphabet] : k \in 0..MaxSrcLen}

InitScan ==
    /\ heap = define(Environment_new(<<>>), 1, "clock", NativeFunction("clock"))
    /\ env = 1
    /\ pre = [heap |-> <<>>, env |-> 0, out |-> <<>>]
    /\ op = NoOp
    /\ out = <<>>
    /\ result = Ok(Unit)
    /\ input = <<>>
    /\ ran = 0
    /\ parser = <<>>
    /\ \E source \in ScanSources : scanner = Scanner_new(source)

InterpreterVars == <<heap, env, out, result, input, pre, ran, op>>

\* one turn of the loop of scan
ScanNext ==
    /\ scanner.mode = "scan"
    /\ scanner.current < Len(scanner.source)
    /\ scanner' = scan_next(scanner)
    /\ UNCHANGED <<InterpreterVars, parser>>

\* one turn of the loop of add_string_literal
StringStep ==
    /\ scanner.mode = "string"
    /\ scanner.current < Len(scanner.source) + MaxOverrun
    /\ scanner' = add_string_literal(scanner)
    /\ UNCHANGED <<InterpreterVars, parser>>

\* one turn of the comment loop of scan_next
CommentStep ==
    /\ scanner.mode = "comment"
    /\ scanner.current < Len(scanner.source) + MaxOverrun
    /\ scanner' = comment_step(scanner)
    /\ UNCHANGED <<InterpreterVars, parser>>

\* the loop of scan has ended
ScanFinish ==
    /\ scanner.mode = "scan"
    /\ scanner.current >= Len(scanner.source)
    /\ scanner' = scan_finish(scanner)
    /\ UNCHANGED <<InterpreterVars, parser>>

NextScan == ScanNext \/ StringStep \/ CommentStep \/ ScanFinish

SpecScan == InitScan /\ [][NextScan]_vars

EofTokens(tokens) == {i \in 1..Len(tokens) : tokens[i].token_type = "EOF"}

RECURSIVE Lexemes(_)
Lexemes(tokens) ==
    IF tokens = <<>> THEN <<>> ELSE Head(tokens).lexeme \o Lexemes(Tail(tokens))

\* the bytes of src from offset i on that are neither whitespace nor part of
\* a // comment
RECURSIVE strip_from(_, _, _)
strip_from(src, i, in_comment) ==
    IF i > Len(src) THEN <<>>
    ELSE IF in_comment THEN strip_from(src, i + 1, src[i] # "\n")
    ELSE IF src[i] = "/" /\ i < Len(src) /\ src[i + 1] = "/"
         THEN strip_from(src, i + 2, TRUE)
    ELSE IF src[i] \in {" ", "\t", "\r", "\n"} THEN strip_from(src, i + 1, FALSE)
    ELSE <<src[i]>> \o strip_from(src, i + 1, FALSE)

Strip(src) == strip_from(src, 1, FALSE)

\* C12: when scan returns, the lexemes of the tokens, concatenated in order,
\* are the source with whitespace and // comments removed.
C12_RoundTrip ==
    scanner.mode = "done" => Lexemes(scanner.tokens) = Strip(scanner.source)

\* C18: while the scanner reads a string literal the scan position never
\* advances past the end of the source.
C18_StringStaysInSource ==
    scanner.mode = "string" => scanner.current <= Len(scanner.source)

-----------------------------------------------------------------------------
(* The parser (src/src/parser.rs)                                          *)
(*                                                                         *)
(* The token vector ts never changes while it is parsed, so a production   *)
(* is an operator of ts and of the cursor it starts at (Parser.current,    *)
(* counted from 0: the next token is ts[cur + 1]); it returns the cursor   *)
(* it leaves and its Result, or Panic where the code unwraps a None.       *)
(* The AST keeps of an identifier token its name, as the evaluator does.   *)

Parsed(cur, r) == [cur |-> cur, r |-> r]

\* struct ParseError
ParseError(error_type, token) == [error_type |-> error_type, token |-> token]

\* String::from_utf8 of a byte vector: the bytes joined into one string
RECURSIVE from_utf8(_)
from_utf8(bytes) ==
    IF bytes = <<>> THEN "" ELSE Head(bytes) \o from_utf8(Tail(bytes))

lexeme_to_name(var_token) == from_utf8(var_token.lexeme)

Parser_peek(ts, cur) == IF cur < Len(ts) THEN Some(ts[cur + 1]) ELSE None

previous_token(ts, cur) == ts[cur]

is_at_end(ts, cur) ==
    /\ Parser_peek(ts, cur) # None
    /\ Parser_peek(ts, cur)[1].token_type = "EOF"

check(ts, cur, token_type) ==
    IF is_at_end(ts, cur) THEN FALSE
    ELSE /\ Parser_peek(ts, cur) # None
         /\ Parser_peek(ts, cur)[1].token_type = token_type

\* match_token: whether it matched; when it did the cursor moved to cur + 1
match_token(ts, cur, token_types) ==
    \E token_type \in token_types : check(ts, cur, token_type)

SyncKeywords == {"Class", "Fun", "Var", "For", "If", "While", "Print", "Return"}

\* the loop of synchronize
RECURSIVE synchronize_loop(_, _)
synchronize_loop(ts, cur) ==
    IF is_at_end(ts, cur) THEN Parsed(cur, Ok(Unit))
    ELSE IF previous_token(ts, cur).token_type = "Semicolon" THEN Parsed(cur, Ok(Unit))
    ELSE IF Parser_peek(ts, cur) = None THEN Parsed(cur, Panic)
    ELSE IF Parser_peek(ts, cur)[1].token_type \in SyncKeywords THEN Parsed(cur, Ok(Unit))
    ELSE synchronize_loop(ts, cur + 1)

synchronize(ts, cur) == synchronize_loop(ts, cur + 1)

consume(ts, cur, token_type) ==
    IF Parser_peek(ts, cur) # None
    THEN LET next_token == Parser_peek(ts, cur)[1]
         IN  IF next_token.token_type = token_type
             THEN Parsed(cur + 1, Ok(next_token))
             ELSE LET sy == synchronize(ts, cur)
                  IN  IF sy.r.kind = "Panic" THEN sy
                      ELSE Parsed(sy.cur, Err(ParseError("UnexpectedCharacter", next_token)))
    ELSE Parsed(cur, Err(ParseError("UnexpectedCharacter",
                                    Token("EOF", <<>>, 0, None, 0))))

BinaryOperatorOf ==
    ("Minus" :> "-") @@ ("Plus" :> "+") @@ ("Slash" :> "/") @@ ("Star" :> "*") @@
    ("BangEqual" :> "!=") @@ ("EqualEqual" :> "==") @@ ("Greater" :> ">") @@
    ("GreaterEqual" :> ">=") @@ ("Less" :> "<") @@ ("LessEqual" :> "<=") @@
    ("And" :> "and") @@ ("Or" :> "or")

parse_binary_operator(token) ==
    IF token.token_type \in DOMAIN BinaryOperatorOf
    THEN Ok(BinaryOperatorOf[token.token_type])
    ELSE Err(ParseError("InvalidBinaryOperator", token))

parse_unary_operator(token) ==
    CASE token.token_type = "Minus" -> Ok("-")
      [] token.token_type = "Bang" -> Ok("!")
      [] OTHER -> Err(ParseError("InvalidUnaryOperator", token))

\* the token types matched by the loops of equality (1), comparison (2),
\* term (3) and factor (4)
LevelTokens_swapped(level) ==
    CASE level = 1 -> {"BangEqual", "EqualEqual"}
      [] level = 2 -> {"Greater", "GreaterEqual", "Less", "LessEqual"}
      [] level = 3 -> {"Slash", "Star"}
      [] level = 4 -> {"Minus", "Plus"}

LevelTokens(level) ==
    CASE level = 1 -> {"BangEqual", "EqualEqual"}
      [] level = 2 -> {"Greater", "GreaterEqual", "Less", "LessEqual"}
      [] level = 3 -> {"Minus", "Plus"}
      [] level = 4 -> {"Slash", "Star"}

\* assignment to anything
assignment_target_any(left, value, equals) ==
    IF left.tag = "Variable"
    THEN Ok(Assignment(left.name, value))
    ELSE Ok(Assignment("", value))

\* assignment, once both sides are parsed: the match on the left operand
assignment_target(left, value, equals) ==
    IF left.tag = "Variable"
    THEN Ok(Assignment(left.name, value))
    ELSE Err(ParseError("InvalidAssignmentTarget", equals))

\* Result::and_then and the ? operator: p when it is no Ok, otherwise F of it
and_then(p, F(_)) == IF p.r.kind # "Ok" THEN p ELSE F(p)

\* let x = ...; F
with(x, F(_)) == F(x)

RECURSIVE expression(_, _), assignment(_, _), binary_level(_, _, _),
          binary_loop(_, _, _, _), unary(_, _), call(_, _), call_loop(_, _, _),
          finish_call(_, _, _), arguments_loop(_, _, _), primary(_, _)

expression(ts, cur) == assignment(ts, cur)

assignment(ts, cur) ==
    and_then(binary_level(ts, cur, 1), LAMBDA e :
        IF match_token(ts, e.cur, {"Equal"})
        THEN and_then(assignment(ts, e.cur + 1), LAMBDA a :
                 Parsed(a.cur, assignment_target(e.r.v, a.r.v,
                                                 previous_token(ts, e.cur + 1))))
        ELSE e)

\* equality (level 1), comparison (2), term (3) and factor (4): the operand
\* of a level is the next level, that of factor is unary
binary_level(ts, cur, level) ==
    IF level = 5 THEN unary(ts, cur)
    ELSE and_then(binary_level(ts, cur, level + 1), LAMBDA left :
             binary_loop(ts, left.cur, left.r.v, level))

\* the while loop of a level, with expr parsed so far
binary_loop(ts, cur, expr, level) ==
    IF match_token(ts, cur, LevelTokens(level))
    THEN with(parse_binary_operator(previous_token(ts, cur + 1)), LAMBDA binary_op :
             IF binary_op.kind # "Ok" THEN Parsed(cur + 1, binary_op)
             ELSE and_then(binary_level(ts, cur + 1, level + 1), LAMBDA right :
                      binary_loop(ts, right.cur,
                                  Binary(expr, right.r.v, binary_op.v), level)))
    ELSE Parsed(cur, Ok(expr))

unary(ts, cur) ==
    IF match_token(ts, cur, {"Bang", "Minus"})
    THEN and_then(unary(ts, cur + 1), LAMBDA u :
             with(parse_unary_operator(previous_token(ts, cur + 1)), LAMBDA unary_op :
                 IF unary_op.kind # "Ok" THEN Parsed(u.cur, unary_op)
                 ELSE Parsed(u.cur, Ok(Unary(u.r.v, unary_op.v)))))
    ELSE call(ts, cur)

call(ts, cur) ==
    and_then(primary(ts, cur), LAMBDA p : call_loop(ts, p.cur, p.r.v))

\* the loop of call, with expr parsed so far
call_loop(ts, cur, expr) ==
    IF match_token(ts, cur, {"LeftParen"})
    THEN and_then(finish_call(ts, cur + 1, expr), LAMBDA f :
             call_loop(ts, f.cur, f.r.v))
    ELSE Parsed(cur, Ok(expr))

finish_call(ts, cur, expr) ==
    and_then(IF ~check(ts, cur, "RightParen")
             THEN arguments_loop(ts, cur, <<>>)
             ELSE Parsed(cur, Ok(<<>>)), LAMBDA arguments :
        and_then(consume(ts, arguments.cur, "RightParen"), LAMBDA c :
            Parsed(c.cur, Ok(Call(expr, arguments.r.v)))))

\* the argument loop of finish_call, with the arguments parsed so far
arguments_loop(ts, cur, arguments) ==
    and_then(expression(ts, cur), LAMBDA e :
        IF match_token(ts, e.cur, {"Comma"})
        THEN arguments_loop(ts, e.cur + 1, Append(arguments, e.r.v))
        ELSE Parsed(e.cur, Ok(Append(arguments, e.r.v))))

primary(ts, cur) ==
    IF match_token(ts, cur, {"False"}) THEN Parsed(cur + 1, Ok(Literal(LitBoolean(FALSE))))
    ELSE IF match_token(ts, cur, {"True"}) THEN Parsed(cur + 1, Ok(Literal(LitBoolean(TRUE))))
    ELSE IF match_token(ts, cur, {"Nil"}) THEN Parsed(cur + 1, Ok(Literal(LitNil)))
    ELSE IF match_token(ts, cur, {"Identifier"})
    THEN Parsed(cur + 1, Ok(Variable(lexeme_to_name(previous_token(ts, cur + 1)))))
    ELSE IF match_token(ts, cur, {"Number"})
    THEN with(previous_token(ts, cur + 1), LAMBDA number :
             IF number.literal = None THEN Parsed(cur + 1, Panic)
             ELSE IF number.literal[1].tag = "String"
             THEN Parsed(cur + 1, Ok(Literal(LitString(from_utf8(number.literal[1].s)))))
             ELSE Parsed(cur + 1, Ok(Literal(LitNumber(number.literal[1].n)))))
    ELSE IF match_token(ts, cur, {"LeftParen"})
    THEN with(expression(ts, cur + 1), LAMBDA expr :
             IF expr.r.kind = "Panic" THEN expr
             ELSE and_then(consume(ts, expr.cur, "RightParen"), LAMBDA c :
                      Parsed(c.cur, expr.r)))
    ELSE IF Parser_peek(ts, cur) = None THEN Parsed(cur, Panic)
    ELSE Parsed(cur, Err(ParseError("UnexpectedCharacter", Parser_peek(ts, cur)[1])))

RECURSIVE declaration(_, _), function_declaration(_, _), params_loop(_, _, _),
          declarations_loop(_, _, _), statement(_, _), if_statement(_, _),
          block_statement(_, _)

\* while !check(RightBrace) && !is_at_end() { declaration()? } of a function
\* body and of a block, with the declarations parsed so far
declarations_loop(ts, cur, parsed) ==
    IF ~check(ts, cur, "RightBrace") /\ ~is_at_end(ts, cur)
    THEN and_then(declaration(ts, cur), LAMBDA d :
             declarations_loop(ts, d.cur, Append(parsed, d.r.v)))
    ELSE Parsed(cur, Ok(parsed))

\* the parameter loop of function_declaration, with the names parsed so far
params_loop(ts, cur, params) ==
    and_then(consume(ts, cur, "Identifier"), LAMBDA param :
        IF match_token(ts, param.cur, {"Comma"})
        THEN params_loop(ts, param.cur + 1, Append(params, lexeme_to_name(param.r.v)))
        ELSE Parsed(param.cur, Ok(Append(params, lexeme_to_name(param.r.v)))))

function_declaration(ts, cur) ==
    and_then(consume(ts, cur, "Identifier"), LAMBDA name_token :
    and_then(consume(ts, name_token.cur, "LeftParen"), LAMBDA lp :
    and_then(IF ~check(ts, lp.cur, "RightParen")
             THEN params_loop(ts, lp.cur, <<>>)
             ELSE Parsed(lp.cur, Ok(<<>>)), LAMBDA params :
    and_then(consume(ts, params.cur, "RightParen"), LAMBDA rp :
    and_then(consume(ts, rp.cur, "LeftBrace"), LAMBDA lb :
    and_then(declarations_loop(ts, lb.cur, <<>>), LAMBDA body :
    and_then(consume(ts, body.cur, "RightBrace"), LAMBDA rb :
        Parsed(rb.cur, Ok(FunctionStmt(lexeme_to_name(name_token.r.v),
                                       params.r.v, body.r.v))))))))))

declaration_statement(ts, cur) ==
    and_then(consume(ts, cur, "Identifier"), LAMBDA token :
        IF match_token(ts, token.cur, {"Equal"})
        THEN and_then(expression(ts, token.cur + 1), LAMBDA initialiser :
             and_then(consume(ts, initialiser.cur, "Semicolon"), LAMBDA semi :
                 Parsed(semi.cur, Ok(Declaration(lexeme_to_name(token.r.v),
                                                 Some(initialiser.r.v))))))
        ELSE and_then(consume(ts, token.cur, "Semicolon"), LAMBDA semi :
                 Parsed(semi.cur, Ok(Declaration(lexeme_to_name(token.r.v), None)))))

return_statement(ts, cur) ==
    IF ~check(ts, cur, "Semicolon")
    THEN and_then(expression(ts, cur), LAMBDA value :
         and_then(consume(ts, value.cur, "Semicolon"), LAMBDA semi :
             Parsed(semi.cur, Ok(ReturnStmt(Some(value.r.v))))))
    ELSE and_then(consume(ts, cur, "Semicolon"), LAMBDA semi :
             Parsed(semi.cur, Ok(ReturnStmt(None))))

print_statement(ts, cur) ==
    and_then(expression(ts, cur), LAMBDA expr :
    and_then(consume(ts, expr.cur, "Semicolon"), LAMBDA semi :
        Parsed(semi.cur, Ok(PrintStmt(expr.r.v)))))

expr_statement(ts, cur) ==
    and_then(expression(ts, cur), LAMBDA expr :
    and_then(consume(ts, expr.cur, "Semicolon"), LAMBDA semi :
        Parsed(semi.cur, Ok(ExprStmt(expr.r.v)))))

if_statement(ts, cur) ==
    and_then(consume(ts, cur, "LeftParen"), LAMBDA lp :
    and_then(expression(ts, lp.cur), LAMBDA condition :
    and_then(consume(ts, condition.cur, "RightParen"), LAMBDA rp :
    and_then(statement(ts, rp.cur), LAMBDA then_branch :
        IF match_token(ts, then_branch.cur, {"Else"})
        THEN and_then(statement(ts, then_branch.cur + 1), LAMBDA else_branch :
                 Parsed(else_branch.cur,
                        Ok(IfStmt(condition.r.v, then_branch.r.v,
                                  Some(else_branch.r.v)))))
        ELSE Parsed(then_branch.cur,
                    Ok(IfStmt(condition.r.v, then_branch.r.v, None)))))))

block_statement(ts, cur) ==
    and_then(declarations_loop(ts, cur, <<>>), LAMBDA body :
    and_then(consume(ts, body.cur, "RightBrace"), LAMBDA rb :
        Parsed(rb.cur, Ok(Block(body.r.v)))))

statement(ts, cur) ==
    IF match_token(ts, cur, {"If"}) THEN if_statement(ts, cur + 1)
    ELSE IF match_token(ts, cur, {"Print"}) THEN print_statement(ts, cur + 1)
    ELSE IF match_token(ts, cur, {"Return"}) THEN return_statement(ts, cur + 1)
    ELSE IF match_token(ts, cur, {"LeftBrace"}) THEN block_statement(ts, cur + 1)
    ELSE expr_statement(ts, cur)

declaration(ts, cur) ==
    IF match_token(ts, cur, {"Fun"}) THEN function_declaration(ts, cur + 1)
    ELSE IF match_token(ts, cur, {"Var"}) THEN declaration_statement(ts, cur + 1)
    ELSE statement(ts, cur)

-----------------------------------------------------------------------------
(* The driver on source text (main.rs, run): the source is scanned, the    *)
(* tokens are parsed one turn of the loop of Parser::parse at a time, and  *)
(* when parse returns the driver evaluates the statements or prints the    *)
(* errors.  Parser.statements and Parser.errors are the two vectors local  *)
(* to parse; mode is "parse" in its loop, "done" once run returned and     *)
(* "panic" once the process aborted; last says what the latest turn of the *)
(* loop pushed, and returned is what parse returned.                       *)

\* how many errors the loop of parse is followed to
MaxErrors == 2

\* Parser::new, and the locals of parse before its loop
Parser_new(tokens) ==
    [tokens |-> tokens, current |-> 0, statements |-> <<>>, errors |-> <<>>,
     mode |-> "parse", last |-> "none", returned |-> Ok(Unit)]

\* a parse that returns whatever statements it has
parse_result_lenient(statements, errors) == Ok(statements)

\* what parse returns after its loop
parse_result(statements, errors) ==
    IF errors = <<>> THEN Ok(statements) ELSE Err(errors)

\* run: the line printed for one parse error
error_line(parse_error) ==
    Line("run", <<parse_error.error_type, ": \"", from_utf8(parse_error.token.lexeme),
                  "\" Line ", ToString(parse_error.token.line),
                  " column ", ToString(parse_error.token.column)>>)

RECURSIVE error_lines(_)
error_lines(errors) ==
    IF errors = <<>> THEN <<>>
    ELSE <<error_line(Head(errors))>> \o error_lines(Tail(errors))

\* Interpreter::new: the arena holding the global scope
Interpreter_new == define(Environment_new(<<>>), 1, "clock", NativeFunction("clock"))

\* the match of the loop of parse on what declaration returned
parse_turn(p, d) ==
    CASE d.r.kind = "Panic" ->
           [p EXCEPT !.current = d.cur, !.mode = "panic", !.last = "Panic"]
      [] d.r.kind = "Ok" ->
           [p EXCEPT !.current = d.cur, !.last = "Ok", !.statements = Append(@, d.r.v)]
      [] d.r.kind = "Err" ->
           [p EXCEPT !.current = d.cur, !.last = "Err", !.errors = Append(@, d.r.v)]

\* one turn of the loop of parse
ParseDeclaration ==
    /\ parser.mode = "parse"
    /\ ~is_at_end(parser.tokens, parser.current)
    /\ Len(parser.errors) < MaxErrors
    /\ parser' = parse_turn(parser, declaration(parser.tokens, parser.current))
    /\ UNCHANGED <<InterpreterVars, scanner>>

\* parse returns and run goes on with its result, while the wall clock reads now
RunParsed(now) ==
    /\ parser.mode = "parse"
    /\ is_at_end(parser.tokens, parser.current)
    /\ LET r == parse_result(parser.statements, parser.errors)
           x == evaluate(r.v, [heap |-> heap, env |-> env, out |-> out, now |-> now])
       IN  /\ parser' = [parser EXCEPT !.returned = r,
                            !.mode = IF r.kind = "Ok" /\ x.r.kind = "Panic"
                                     THEN "panic" ELSE "done"]
           /\ IF r.kind = "Ok"
              THEN /\ heap' = x.s.heap
                   /\ env' = x.s.env
                   /\ out' = IF x.r.kind = "Panic" THEN x.s.out
                             ELSE Append(x.s.out, run_line(x.r))
                   /\ result' = x.r
                   /\ input' = r.v
                   /\ pre' = [heap |-> heap, env |-> env, out |-> out]
                   /\ ran' = ran + 1
              ELSE /\ out' = out \o error_lines(r.v)
                   /\ UNCHANGED <<heap, env, result, input, pre, ran>>
    /\ UNCHANGED <<op, scanner>>

-----------------------------------------------------------------------------
(* Source texts                                                            *)

SP == <<" ">>
kw_print == <<"p", "r", "i", "n", "t">>
kw_var == <<"v", "a", "r">>

\* print 1;
PrintOneSource == kw_print \o SP \o <<"1", ";">>

\* var = 3;
VarNoNameSource == kw_var \o SP \o <<"=", " ", "3", ";">>

\* var a = 4; print a;
VarPrintSource ==
    kw_var \o SP \o <<"a", " ", "=", " ", "4", ";", " ">> \o kw_print \o SP \o <<"a", ";">>

\* print 1; var = 3;
PrintThenErrorSource == PrintOneSource \o SP \o VarNoNameSource

\* var = 3; print 1;
ErrorThenPrintSource == VarNoNameSource \o SP \o PrintOneSource

\* print 1      (no semicolon)
NoSemicolonSource == kw_print \o SP \o <<"1">>

\* ;
SemicolonSource == <<";">>

\* print ;
PrintNothingSource == kw_print \o SP \o <<";">>

\* print "hi";
PrintStringSource == kw_print \o SP \o <<"\"", "h", "i", "\"", ";">>

\* the left operands of the assignment sources: 1, 1 + a, f(), (1), (1 + a), (a), a
LeftOperands ==
    [literal |-> <<"1">>,
     binary |-> <<"1", " ", "+", " ", "a">>,
     call |-> <<"f", "(", ")">>,
     paren_literal |-> <<"(", "1", ")">>,
     paren_binary |-> <<"(", "1", " ", "+", " ", "a", ")">>,
     paren_variable |-> <<"(", "a", ")">>,
     variable |-> <<"a">>]

\* left = 2;
AssignSource(left) == LeftOperands[left] \o <<" ", "=", " ", "2", ";">>

\* the symbols of the binary operators that a production matches, by level
LevelOf ==
    ("!=" :> 1) @@ ("==" :> 1) @@ (">" :> 2) @@ (">=" :> 2) @@ ("<" :> 2) @@
    ("<=" :> 2) @@ ("-" :> 3) @@ ("+" :> 3) @@ ("/" :> 4) @@ ("*" :> 4)

OpText ==
    ("!=" :> <<"!", "=">>) @@ ("==" :> <<"=", "=">>) @@ (">" :> <<">">>) @@
    (">=" :> <<">", "=">>) @@ ("<" :> <<"<">>) @@ ("<=" :> <<"<", "=">>) @@
    ("-" :> <<"-">>) @@ ("+" :> <<"+">>) @@ ("/" :> <<"/">>) @@ ("*" :> <<"*">>)

\* print 4 o1 2 o2 1;
TwoOpsSource(o1, o2) ==
    kw_print \o SP \o <<"4">> \o SP \o OpText[o1] \o SP \o <<"2">> \o SP
             \o OpText[o2] \o SP \o <<"1", ";">>

\* print 1 + 2 * 3;
PrecedenceSource == kw_print \o SP \o <<"1", " ", "+", " ", "2", " ", "*", " ", "3", ";">>

\* the operands of the unary sources, each with its value
UnaryOperands ==
    {[text |-> <<"1">>, value |-> Number(1)],
     [text |-> <<"0">>, value |-> Number(0)],
     [text |-> <<"t", "r", "u", "e">>, value |-> Bool(TRUE)],
     [text |-> <<"f", "a", "l", "s", "e">>, value |-> Bool(FALSE)],
     [text |-> <<"n", "i", "l">>, value |-> Nil]}

UnaryOperators == {"-", "!"}

\* print -1;   print !true;   ...
UnarySource(o, text) == kw_print \o SP \o <<o>> \o text \o <<";">>

ParseSources ==
    {PrintOneSource, VarNoNameSource, VarPrintSource, PrintThenErrorSource,
     ErrorThenPrintSource, NoSemicolonSource, SemicolonSource, PrintNothingSource,
     PrintStringSource, PrecedenceSource}
    \cup {AssignSource(left) : left \in DOMAIN LeftOperands}
    \cup {TwoOpsSource(o[1], o[2]) : o \in (DOMAIN LevelOf) \X (DOMAIN LevelOf)}
    \cup {UnarySource(o, operand.text) : o \in UnaryOperators, operand \in UnaryOperands}

InitParse ==
    /\ heap = Interpreter_new
    /\ env = 1
    /\ pre = [heap |-> <<>>, env |-> 0, out |-> <<>>]
    /\ op = NoOp
    /\ out = <<>>
    /\ result = Ok(Unit)
    /\ input = <<>>
    /\ ran = 0
    /\ scanner = <<>>
    /\ \E source \in ParseSources : parser = Parser_new(scan(source))

NextParse == ParseDeclaration \/ \E now \in 0..MaxClock : RunParsed(now)

SpecParse == InitParse /\ [][NextParse]_vars

-----------------------------------------------------------------------------
(* Claims about the parser and the driver                                  *)

PrintLines == {i \in DOMAIN out : out[i].src = "print"}

\* C13: parse returns the statement list exactly when it recorded no error
\* and otherwise the error list; the driver evaluates only a returned
\* statement list: after an input with a parse error nothing of it has run,
\* there is no print output and the environments are as Interpreter::new
\* left them.
C13_ParseErrorRunsNothing ==
    parser.mode = "done" =>
        /\ parser.returned = IF parser.errors = <<>>
                             THEN Ok(parser.statements)
                             ELSE Err(parser.errors)
        /\ parser.errors = <<>> => ran = 1 /\ input = parser.statements
        /\ parser.errors # <<>> =>
              /\ ran = 0
              /\ heap = Interpreter_new
              /\ env = 1
              /\ PrintLines = {}

\* print 1; var = 3;  one UnexpectedCharacter on the = token, print 1 parsed
\* and not run
C13_Witness ==
    /\ parser.mode = "done"
    /\ parser.tokens = scan(PrintThenErrorSource)
    /\ Len(parser.statements) = 1
    /\ Len(parser.errors) = 1
    /\ parser.errors[1].error_type = "UnexpectedCharacter"
    /\ parser.errors[1].token.token_type = "Equal"
    /\ PrintLines = {}

\* the cursor is right after a semicolon, right before a statement keyword,
\* or at EOF
Synchronized(ts, cur) ==
    \/ is_at_end(ts, cur)
    \/ cur >= 1 /\ cur <= Len(ts) /\ ts[cur].token_type = "Semicolon"
    \/ cur < Len(ts) /\ ts[cur + 1].token_type \in SyncKeywords

\* C14: after a turn of the loop of parse that recorded a syntax error, and
\* before the next declaration is parsed, the parser has synchronized.
C14_SynchronizedAfterError ==
    (parser.mode = "parse" /\ parser.last = "Err") =>
        Synchronized(parser.tokens, parser.current)

\* the = token of a token vector that holds one
EqualsToken(ts) == ts[CHOOSE i \in 1..Len(ts) : ts[i].token_type = "Equal"]

InvalidTarget(left) ==
    (parser.tokens = scan(AssignSource(left)) /\ parser.last # "none") =>
        /\ parser.statements = <<>>
        /\ parser.errors[1] =
               ParseError("InvalidAssignmentTarget", EqualsToken(parser.tokens))

Grouped(o1, o2) ==
    IF LevelOf[o2] > LevelOf[o1]
    THEN Binary(Num(4), Binary(Num(2), Num(1), o2), o1)
    ELSE Binary(Binary(Num(4), Num(2), o1), Num(1), o2)

\* C16: for all binary operators o1 and o2, print 4 o1 2 o2 1; parses to the
\* tree in which the tighter level binds first and operators of one level
\* group to the left; and print 1 + 2 * 3; prints 7.
C16_Precedence ==
    /\ \A o1 \in DOMAIN LevelOf, o2 \in DOMAIN LevelOf :
           (parser.tokens = scan(TwoOpsSource(o1, o2)) /\ parser.last # "none") =>
               /\ parser.errors = <<>>
               /\ parser.statements = <<PrintStmt(Grouped(o1, o2))>>
    /\ (parser.tokens = scan(PrecedenceSource) /\ parser.mode = "done") =>
           /\ Len(out) = 2
           /\ out[1] = Line("print", <<"7">>)

C16_Witness ==
    /\ parser.tokens = scan(PrecedenceSource)
    /\ parser.mode = "done"
    /\ out[1] = Line("print", <<"7">>)

\* C17: print "hi"; parses without error.
C17_StringLiteralParses ==
    parser.tokens = scan(PrintStringSource) => parser.errors = <<>>

-----------------------------------------------------------------------------
(* The interpreter on inputs that persist across the REPL and on if        *)
(* statements                                                              *)

\* C19: an input print a; run after an earlier input prints the value that
\* the top-level (global) a holds.
C19_TopLevelPersists ==
    (ran = 2 /\ input = PrintProgram /\ "a" \in DOMAIN pre.heap[1].bindings) =>
        /\ result = Ok(Unit)
        /\ Printed = << print_line(pre.heap[1].bindings["a"]) >>

\* the conditions of the if inputs, each with what its evaluation gives:
\* "true" for Bool(true), "other" for any other value, "fails" for an error
Conditions ==
    {[expr |-> True, gives |-> "true"],
     [expr |-> Literal(LitBoolean(FALSE)), gives |-> "other"],
     [expr |-> Literal(LitNil), gives |-> "other"],
     [expr |-> Literal(LitString("s")), gives |-> "other"],
     [expr |-> Literal(LitString("true")), gives |-> "other"],
     [expr |-> Variable("clock"), gives |-> "other"],
     [expr |-> Variable("f"), gives |-> "other"],
     [expr |-> Variable("u"), gives |-> "other"],
     [expr |-> Assignment("u", Num(1)), gives |-> "fails"],
     [expr |-> Binary(Num(1), Literal(LitNil), "+"), gives |-> "fails"]}
    \cup {[expr |-> Num(n), gives |-> "other"] : n \in 0..MaxVal}
    \cup {[expr |-> Binary(Variable("a"), Num(n), "=="),
           gives |-> IF n = MaxVal THEN "true" ELSE "other"] : n \in 1..MaxVal}

\* fun f() {} var a = MaxVal; if (condition) print 1; else print 2;
\* (without the else branch when has_else is false; u is declared nowhere:
\* reading it gives nil, assigning to it fails)
IfProgram(condition, has_else) ==
    << FunctionStmt("f", <<>>, <<>>),
       Declaration("a", Some(Num(MaxVal))),
       IfStmt(condition, PrintStmt(Num(1)),
              IF has_else THEN Some(PrintStmt(Num(2))) ELSE None) >>

IfInputs == {IfProgram(c.expr, e) : c \in Conditions, e \in BOOLEAN}

NextIf == \E statements \in IfInputs, now \in 0..MaxClock : Run(statements, now)

SpecIf == Init /\ [][NextIf]_vars

\* C20: an if statement prints 1 (its then-branch) exactly when its condition
\* gives Bool(true); for every other value it prints 2 (its else-branch) when
\* it has one and nothing when it has none; when the condition fails it
\* prints nothing and the input ends with the error.
C20_IfBranches ==
    \A c \in Conditions, e \in BOOLEAN :
        (ran >= 1 /\ input = IfProgram(c.expr, e)) =>
            /\ Printed = CASE c.gives = "true" -> << <<"1">> >>
                           [] c.gives = "other" /\ e -> << <<"2">> >>
                           [] OTHER -> << >>
            /\ (result.kind = "Err") <=> (c.gives = "fails")

C20_Witness ==
    /\ ran = 2
    /\ input = IfProgram(Num(1), TRUE)
    /\ Printed = << <<"2">> >>

-----------------------------------------------------------------------------
(* Return and the other errors on their way out of a function body         *)

\* fun g() { <return X; at depth d> print 9; }
\* fun f() { var v = g(); print v; } f(); print 0;
InnerReturnProgram(d, X) ==
    << FunctionStmt("g", <<>>,
          << Nest(d, ReturnStmt(Some(Num(X)))), PrintStmt(Num(9)) >>),
       FunctionStmt("f", <<>>,
          << Declaration("v", Some(Call(Variable("g"), <<>>))),
             PrintStmt(Variable("v")) >>),
       CallStmt("f"),
       PrintStmt(Num(0)) >>

\* the statements that fail with an error other than Return, each with its
\* error: u = 1; (u is declared nowhere), 1 + nil; and 1();
Failures ==
    {[statement |-> ExprStmt(Assignment("u", Num(1))),
      error |-> UndefinedVariable("u")],
     [statement |-> ExprStmt(Binary(Num(1), Literal(LitNil), "+")),
      error |-> Runtime(<<"Invalid operation: ", "1", " ", "+", " ", "nil">>)],
     [statement |-> ExprStmt(Call(Num(1), <<>>)),
      error |-> InvalidFunction]}

\* fun f() { <failing statement at depth d> print 9; } f(); print 0;
BodyErrorProgram(d, failing) ==
    << FunctionStmt("f", <<>>, << Nest(d, failing), PrintStmt(Num(9)) >>),
       CallStmt("f"),
       PrintStmt(Num(0)) >>

\* <return X; at depth d> print 0;     (outside any call)
TopReturnProgram(d, X) == << Nest(d, ReturnStmt(Some(Num(X)))), PrintStmt(Num(0)) >>

RetInputs ==
    {InnerReturnProgram(d, X) : d \in 0..MaxDepth, X \in Vals}
    \cup {BodyErrorProgram(d, k.statement) : d \in 0..MaxDepth, k \in Failures}
    \cup {TopReturnProgram(d, X) : d \in 0..MaxDepth, X \in Vals}

NextRet == \E statements \in RetInputs, now \in 0..MaxClock : Run(statements, now)

SpecRet == Init /\ [][NextRet]_vars

\* C21: a return X in the body of g, at any depth of blocks and if
\* statements, ends the call of g only: the caller f goes on with X as the
\* value of the call and the input goes on after f(); any other error raised
\* in a function body, at any depth, ends the input with that same error and
\* nothing more is printed; a return X outside any call ends the input with
\* Err(Return(X)).
C21_ReturnPropagation ==
    /\ \A d \in 0..MaxDepth, X \in Vals :
          (ran >= 1 /\ input = InnerReturnProgram(d, X))
              => /\ result = Ok(Unit)
                 /\ Printed = << <<ToString(X)>>, <<"0">> >>
    /\ \A d \in 0..MaxDepth, k \in Failures :
          (ran >= 1 /\ input = BodyErrorProgram(d, k.statement))
              => /\ result = Err(k.error)
                 /\ Printed = << >>
    /\ \A d \in 0..MaxDepth, X \in Vals :
          (ran >= 1 /\ input = TopReturnProgram(d, X))
              => /\ result = Err(Return(Number(X)))
                 /\ Printed = << >>

C21_Witness ==
    /\ ran = 2
    /\ pre.out # <<>>
    /\ input = BodyErrorProgram(2, ExprStmt(Call(Num(1), <<>>)))
    /\ result = Err(InvalidFunction)

-----------------------------------------------------------------------------
(* Binary operators on every pair of kinds of value                        *)

\* run_file: one input run by a new Interpreter
RunFile(statements, now) == ran = 0 /\ Run(statements, now)

\* operand expressions, each with the value it evaluates to: numbers (zero
\* among them), strings, booleans, nil, the native function clock and the
\* user function f
BinOperands ==
    {[expr |-> Num(n), value |-> Number(n)] : n \in 0..MaxVal}
    \cup {[expr |-> Literal(LitString(t)), value |-> String(t)] : t \in {"s", "1"}}
    \cup {[expr |-> Literal(LitBoolean(b)), value |-> Bool(b)] : b \in BOOLEAN}
    \cup {[expr |-> Literal(LitNil), value |-> Nil],
          [expr |-> Variable("clock"), value |-> NativeFunction("clock")],
          [expr |-> Variable("f"), value |-> Function("f", <<>>, <<>>, 1)]}

\* fun f() {} var r = <left> <o> <right>; print r;
BinaryProgram(left, o, right) ==
    << FunctionStmt("f", <<>>, <<>>),
       Declaration("r", Some(Binary(left, right, o))),
       PrintStmt(Variable("r")) >>

BinInputs ==
    {BinaryProgram(a.expr, o, b.expr) : a \in BinOperands, b \in BinOperands,
                                        o \in BinaryOperators}

NextBin == \E statements \in BinInputs, now \in 0..MaxClock : RunFile(statements, now)

SpecBin == Init /\ [][NextBin]_vars

Arithmetic == {"+", "-", "*", "/"}
Comparison == {">", ">=", "<", "<=", "=="}
Logical == {"and", "or"}

\* what the spec's table gives for number operands
ArithmeticValue(a, o, b) ==
    CASE o = "+" -> a + b
      [] o = "-" -> a - b
      [] o = "*" -> a * b
ComparisonValue(a, o, b) ==
    CASE o = ">" -> a > b
      [] o = ">=" -> a >= b
      [] o = "<" -> a < b
      [] o = "<=" -> a <= b
      [] o = "==" -> a = b

\* the value that var r = ... bound, if the declaration was reached
BoundR == get(heap, 1, "r")

\* C22: for every pair of operand values and every binary operator,
\* var r = left o right binds r to a Number for + - * / on two Numbers (the
\* sum, difference or product for + - *), to the Bool of the comparison for
\* > >= < <= == on two Numbers, to the Bool of the conjunction or disjunction
\* for and / or on two Bools, and in every other case (every !=, == on other
\* than two Numbers, any nil, string or function operand) ends with a Runtime
\* error and binds nothing.
C22_BinaryDispatch ==
    \A a \in BinOperands, b \in BinOperands, o \in BinaryOperators :
        (ran = 1 /\ input = BinaryProgram(a.expr, o, b.expr)) =>
            LET x == a.value
                y == b.value
            IN  CASE x.tag = "Number" /\ y.tag = "Number" /\ o \in Arithmetic ->
                        /\ result = Ok(Unit)
                        /\ BoundR # None
                        /\ BoundR[1].tag = "Number"
                        /\ o # "/" => BoundR[1].n = ArithmeticValue(x.n, o, y.n)
                  [] x.tag = "Number" /\ y.tag = "Number" /\ o \in Comparison ->
                        /\ result = Ok(Unit)
                        /\ BoundR = Some(Bool(ComparisonValue(x.n, o, y.n)))
                  [] x.tag = "Bool" /\ y.tag = "Bool" /\ o \in Logical ->
                        /\ result = Ok(Unit)
                        /\ BoundR = Some(Bool(IF o = "and" THEN x.b /\ y.b ELSE x.b \/ y.b))
                  [] OTHER ->
                        /\ result.kind = "Err"
                        /\ result.v.tag = "Runtime"
                        /\ BoundR = None
                        /\ Printed = << >>

C22_Witness ==
    /\ ran = 1
    /\ input = BinaryProgram(Literal(LitNil), "!=", Literal(LitNil))
    /\ result.kind = "Err"
    /\ result.v.tag = "Runtime"

-----------------------------------------------------------------------------
(* The order of evaluation, made visible by functions with side effects    *)

\* the functions a, b, c and x: each appends its digit to the base-5 number
\* t and prints its name; a, b and c then return their digit, x then fails
\* assigning to u, which is declared nowhere
OrderNames == {"a", "b", "c", "x"}
Digit(name) == CASE name = "a" -> 1 [] name = "b" -> 2 [] name = "c" -> 3 [] name = "x" -> 4
Failing(name) == name = "x"

\* fun name() { t = t * 5 + digit; print "name"; return digit; }
\* fun x() { t = t * 5 + 4; print "x"; u = 0; }
EffectFunction(name) ==
    FunctionStmt(name, <<>>,
       << ExprStmt(Assignment("t",
              Binary(Binary(Variable("t"), Num(5), "*"), Num(Digit(name)), "+"))),
          PrintStmt(Literal(LitString(name))),
          IF Failing(name) THEN ExprStmt(Assignment("u", Num(0)))
          ELSE ReturnStmt(Some(Num(Digit(name)))) >>)

ParamNames == <<"p", "q">>

\* var t = 0; fun a() ... fun b() ... fun c() ... fun x() ...
\* fun h(<n parameters>) { print "h"; print p; print q; }
\* fun k() { print "k"; return h; }
OrderPrelude(n) ==
    << Declaration("t", Some(Num(0))),
       EffectFunction("a"), EffectFunction("b"), EffectFunction("c"), EffectFunction("x"),
       FunctionStmt("h", SubSeq(ParamNames, 1, n),
          << PrintStmt(Literal(LitString("h"))) >>
          \o [i \in 1..n |-> PrintStmt(Variable(ParamNames[i]))]),
       FunctionStmt("k", <<>>,
          << PrintStmt(Literal(LitString("k"))), ReturnStmt(Some(Variable("h"))) >>) >>

CallOf(name) == Call(Variable(name), <<>>)

\* print L() + R();   and   print L() + M() + R();
RECURSIVE SumOf(_, _)
SumOf(names, n) ==
    IF n = 1 THEN CallOf(names[1])
    ELSE Binary(SumOf(names, n - 1), CallOf(names[n]), "+")
SumProgram(names) == OrderPrelude(0) \o << PrintStmt(SumOf(names, Len(names))) >>

\* k()(A1(), ..., An());
ArgsProgram(names) ==
    OrderPrelude(Len(names))
    \o << ExprStmt(Call(CallOf("k"), [i \in 1..Len(names) |-> CallOf(names[i])])) >>

\* S1(); ...; Sn(); print "end";
ListProgram(names) ==
    OrderPrelude(0)
    \o [i \in 1..Len(names) |-> ExprStmt(CallOf(names[i]))]
    \o << PrintStmt(Literal(LitString("end"))) >>

NamesOf(lo, hi) == UNION {[1..n -> OrderNames] : n \in lo..hi}

OrderInputs ==
    {SumProgram(names) : names \in NamesOf(2, 3)}
    \cup {ArgsProgram(names) : names \in NamesOf(0, 2)}
    \cup {ListProgram(names) : names \in NamesOf(1, 3)}

NextOrder == \E statements \in OrderInputs, now \in 0..MaxClock : RunFile(statements, now)

SpecOrder == Init /\ [][NextOrder]_vars

\* the calls of names that happen when they are made in order and nothing
\* is called after the first one that fails
Fails(names) == \E i \in 1..Len(names) : Failing(names[i])
FirstFailing(names) == CHOOSE i \in 1..Len(names) :
                          Failing(names[i]) /\ \A j \in 1..(i - 1) : ~Failing(names[j])
Called(names) == IF Fails(names) THEN SubSeq(names, 1, FirstFailing(names)) ELSE names

\* the lines these calls print and the number they leave in t
NameLines(names) == [i \in 1..Len(names) |-> <<names[i]>>]
RECURSIVE Digits5(_, _)
Digits5(names, n) == IF n = 0 THEN 0 ELSE Digits5(names, n - 1) * 5 + Digit(names[n])
RECURSIVE DigitSum(_, _)
DigitSum(names, n) == IF n = 0 THEN 0 ELSE DigitSum(names, n - 1) + Digit(names[n])

OrderResult(names) == IF Fails(names) THEN Err(UndefinedVariable("u")) ELSE Ok(Unit)
LeftInT(names) == get(heap, 1, "t") = Some(Number(Digits5(Called(names), Len(Called(names)))))

\* C23: the operands of a sum are called left to right and none after the
\* first that fails; in a call the callee expression is evaluated first,
\* then the arguments left to right, none after the first that fails, and
\* the body runs after all of them with the arguments bound in order; the
\* statements of a list run in order and none after the first that fails.
\* The lines printed and the assignments to t made by the called functions
\* are in that order.
C23_EvaluationOrder ==
    /\ \A names \in NamesOf(2, 3) :
          (ran = 1 /\ input = SumProgram(names)) =>
              /\ result = OrderResult(names)
              /\ LeftInT(names)
              /\ Printed = NameLines(Called(names))
                    \o (IF Fails(names) THEN << >>
                        ELSE << <<ToString(DigitSum(names, Len(names)))>> >>)
    /\ \A names \in NamesOf(0, 2) :
          (ran = 1 /\ input = ArgsProgram(names)) =>
              /\ result = OrderResult(names)
              /\ LeftInT(names)
              /\ Printed = << <<"k">> >> \o NameLines(Called(names))
                    \o (IF Fails(names) THEN << >>
                        ELSE << <<"h">> >>
                             \o [i \in 1..Len(names) |-> <<ToString(Digit(names[i]))>>])
    /\ \A names \in NamesOf(1, 3) :
          (ran = 1 /\ input = ListProgram(names)) =>
              /\ result = OrderResult(names)
              /\ LeftInT(names)
              /\ Printed = NameLines(Called(names))
                    \o (IF Fails(names) THEN << >> ELSE << <<"end">> >>)

C23_Witness ==
    /\ ran = 1
    /\ input = ArgsProgram(<<"b", "a">>)
    /\ Printed = << <<"k">>, <<"b">>, <<"a">>, <<"h">>, <<"2">>, <<"1">> >>
    /\ get(heap, 1, "t") = Some(Number(11))

-----------------------------------------------------------------------------
(* The scope of a call                                                     *)

False == Literal(LitBoolean(FALSE))

\* var x = X; fun f() { print x; print y; }
\* fun g() { var x = Y; var y = Y; f(); } g();
HiddenProgram(X, Y) ==
    << Declaration("x", Some(Num(X))),
       FunctionStmt("f", <<>>, << PrintStmt(Variable("x")), PrintStmt(Variable("y")) >>),
       FunctionStmt("g", <<>>,
          << Declaration("x", Some(Num(Y))),
             Declaration("y", Some(Num(Y))),
             CallStmt("f") >>),
       CallStmt("g") >>

\* fun f(p) { fun get() { return p; } return get; }
\* var g1 = f(X); var g2 = f(Y); print g1(); print g2();
OwnParamsProgram(X, Y) ==
    << FunctionStmt("f", <<"p">>,
          << FunctionStmt("get", <<>>, << ReturnStmt(Some(Variable("p"))) >>),
             ReturnStmt(Some(Variable("get"))) >>),
       Declaration("g1", Some(Call(Variable("f"), << Num(X) >>))),
       Declaration("g2", Some(Call(Variable("f"), << Num(Y) >>))),
       PrintStmt(Call(Variable("g1"), <<>>)),
       PrintStmt(Call(Variable("g2"), <<>>)) >>

\* fun f(p, more) { if (more) f(Y, false); print p; } f(X, true);
NestedCallProgram(X, Y) ==
    << FunctionStmt("f", <<"p", "more">>,
          << IfStmt(Variable("more"),
                    ExprStmt(Call(Variable("f"), << Num(Y), False >>)), None),
             PrintStmt(Variable("p")) >>),
       ExprStmt(Call(Variable("f"), << Num(X), True >>)) >>

\* fun f(p) { var loc = Y; print p; print loc; } f(X); print p; print loc;
LocalsProgram(X, Y) ==
    << FunctionStmt("f", <<"p">>,
          << Declaration("loc", Some(Num(Y))),
             PrintStmt(Variable("p")),
             PrintStmt(Variable("loc")) >>),
       ExprStmt(Call(Variable("f"), << Num(X) >>)),
       PrintStmt(Variable("p")),
       PrintStmt(Variable("loc")) >>

CallInputs ==
    {HiddenProgram(X, Y) : X \in Vals, Y \in Vals}
    \cup {OwnParamsProgram(X, Y) : X \in Vals, Y \in Vals}
    \cup {NestedCallProgram(X, Y) : X \in Vals, Y \in Vals}
    \cup {LocalsProgram(X, Y) : X \in Vals, Y \in Vals}

NextCall == \E statements \in CallInputs, now \in 0..MaxClock : Run(statements, now)

SpecCall == Init /\ [][NextCall]_vars

\* C24: the body of a called function reads a free name in the scope of the
\* function's declaration and not in the caller's scope (x of the caller g
\* is not the x that f prints, y of g is unbound in f); two calls of one
\* function have their own binding of the parameter, also while the first
\* call is still running; after the call its parameter and its local are
\* unbound for the caller, whose current scope is the one of before the call.
C24_CallScope ==
    \A X \in Vals, Y \in Vals :
        /\ (ran >= 1 /\ input = HiddenProgram(X, Y)) =>
              /\ result = Ok(Unit)
              /\ Printed = << <<ToString(X)>>, <<"nil">> >>
        /\ (ran >= 1 /\ input = OwnParamsProgram(X, Y)) =>
              /\ result = Ok(Unit)
              /\ Printed = << <<ToString(X)>>, <<ToString(Y)>> >>
        /\ (ran >= 1 /\ input = NestedCallProgram(X, Y)) =>
              /\ result = Ok(Unit)
              /\ Printed = << <<ToString(Y)>>, <<ToString(X)>> >>
        /\ (ran >= 1 /\ input = LocalsProgram(X, Y)) =>
              /\ result = Ok(Unit)
              /\ Printed = << <<ToString(X)>>, <<ToString(Y)>>, <<"nil">>, <<"nil">> >>
              /\ env = pre.env
              /\ get(heap, env, "p") = None
              /\ get(heap, env, "loc") = None

C24_Witness ==
    /\ ran = 2
    /\ pre.out # <<>>
    /\ input = HiddenProgram(1, 2)
    /\ Printed = << <<"1">>, <<"nil">> >>
    /\ heap[Len(heap) - 1].bindings["y"] = Number(2)

-----------------------------------------------------------------------------
(* Calls with a number of arguments other than the number of parameters    *)

\* fun f(<n parameters>) { print "body"; } f(<arguments>);
ArityProgram(n, arguments) ==
    << FunctionStmt("f", SubSeq(ParamNames, 1, n), << PrintStmt(Literal(LitString("body"))) >>),
       ExprStmt(Call(Variable("f"), [i \in 1..Len(arguments) |-> Num(arguments[i])])) >>

ArgumentLists == UNION {[1..m -> Vals] : m \in 0..Len(ParamNames)}

ArityInputs == {ArityProgram(n, arguments) : n \in 0..Len(ParamNames), arguments \in ArgumentLists}

NextArity == \E statements \in ArityInputs, now \in 0..MaxClock : Run(statements, now)

SpecArity == Init /\ [][NextArity]_vars

\* C25: a call of f with as many arguments as f has parameters runs the
\* body; with fewer or with more arguments the input ends with a Runtime
\* error, the body does not run and the interpreter does not abort.
C25_ArityChecked ==
    \A n \in 0..Len(ParamNames), arguments \in ArgumentLists :
        (ran >= 1 /\ input = ArityProgram(n, arguments)) =>
            IF Len(arguments) = n
            THEN result = Ok(Unit) /\ Printed = << <<"body">> >>
            ELSE /\ result.kind = "Err"
                 /\ result.v.tag = "Runtime"
                 /\ Printed = << >>

-----------------------------------------------------------------------------
(* Unary expressions                                                       *)

\* C26: an input print <o><operand>; with a unary operator never aborts the
\* interpreter: print -n; prints the negated number, print !b; prints the
\* negated boolean, and with any other operand the input ends with a runtime
\* error.
C26_UnaryEvaluates ==
    \A o \in UnaryOperators, operand \in UnaryOperands :
        parser.tokens = scan(UnarySource(o, operand.text)) =>
            /\ parser.mode # "panic"
            /\ parser.mode = "done" =>
                  CASE o = "-" /\ operand.value.tag = "Number" ->
                          /\ result = Ok(Unit)
                          /\ Printed = << <<ToString(0 - operand.value.n)>> >>
                    [] o = "!" /\ operand.value.tag = "Bool" ->
                          /\ result = Ok(Unit)
                          /\ Printed = << print_line(Bool(~operand.value.b)) >>
                    [] OTHER ->
                          /\ result.kind = "Err"
                          /\ Printed = << >>

-----------------------------------------------------------------------------
(* Comments                                                                *)

\* C27: while the scanner skips a // comment the scan position never
\* advances past the end of the source: the comment ends at the newline or
\* at the end of the input, whichever comes first.
C27_CommentStaysInSource ==
    scanner.mode = "comment" => scanner.current <= Len(scanner.source)

-----------------------------------------------------------------------------
(* Progress and bounds of the parser's cursor                              *)

\* the statements and errors that the loop of parse has collected
Turns(p) == Len(p.statements) + Len(p.errors)

\* C28: every turn of the loop of parse, whether it adds a statement or
\* records an error, moves the cursor forward by at least one token.
C28_EveryTurnAdvances ==
    [][Turns(parser') > Turns(parser) => parser'.current > parser.current]_vars

\* the index of the EOF token, the last of the vector (indices from 0)
EofIndex(p) == Len(p.tokens) - 1

\* C29: the cursor of the parser is never past the EOF token, and no turn
\* of the loop of parse aborts: an input that lacks a closing ; ) or } at
\* its end gives a parse error.
C29_CursorAtMostEof ==
    /\ parser.current <= EofIndex(parser)
    /\ parser.last # "Panic"

=============================================================================
